---------------------------- MODULE Spec2Model ----------------------------
(***************************************************************************)
(* A model of the tokio_kcp endpoint with the SCReAM congestion controller *)
(* and the packet pacer (src/tokio_kcp/src/{scream,skcp,pacer}.rs).        *)
(*                                                                         *)
(* Time is a clock in milliseconds.  f32 bit rates are integers in bit/s.  *)
(* Byte counts (packet sizes, bytes_in_flight) are in units of 1024 bytes, *)
(* so that the u32 range, 2^32 bytes, is 2^22 units.                       *)
(* u32 counters keep their width: an overflowing add or subtract panics in *)
(* a build with overflow checks and wraps modulo 2^32 in a build without,  *)
(* so the build is chosen once, in Init (debug_build).                     *)
(***************************************************************************)
EXTENDS Integers, Sequences, FiniteSets, TLC

\* --------------------------------------------------------------- bounds
MaxSn == 2          \* sequence numbers 0..MaxSn are reported to the controller
MaxOps == 5         \* controller events and clock steps per behaviour of SpecCtl

InitSndWnd == 2     \* the configured send window, in segments
InitRcvWnd == 2     \* the configured receive window, in segments
InitRmtWnd == 2     \* the remote window assumed before the peer advertises one
Rto == 20           \* the ARQ retransmission timeout, in ms
PacerCap == 2       \* capacity of the pacer channel (256 in pacer.rs), scaled down
MaxClock == 20      \* the clock of the endpoint specifications stops here
MaxSockOps == 5     \* calls, datagrams and clock steps per behaviour of SpecSock
MaxFbOps == 5       \* controller calls and clock steps per behaviour of SpecFb
MaxNetOps == 8      \* calls, datagrams and clock steps per behaviour of SpecNet
MaxAcks == 2        \* acks an endpoint holds back before a datagram is let in
MaxPkts == 4        \* datagrams written to the pacer channel in SpecPacer
MaxPublishes == 2   \* pacing rates published in SpecPacer
MaxPacerClock == 16 \* the clock of SpecPacer stops here
MaxWndOps == 4      \* reference-window events in SpecWnd

\* ------------------------------------------------------ program constants
U32 == 4194304      \* 2^32 bytes, the range of a u32 byte counter, in units of 1024 bytes
BASE_RTT_WINDOW == 10000
QDELAY_TARGET_LO == 60
QDELAY_TARGET_HI == 400
MSS == 1000
FeedbackInterval == 10
MinRttPeriod == 20
MinBitrate == 500000
MaxBitrate == 10000000

SeqNums == 0..MaxSn
\* Wire sizes handed to on_packet_sent (a usize), in units of 1024 bytes: a
\* segment of 1024 bytes and a size of 2^31 bytes, two of which exceed a u32.
Sizes == {1, 2097152}
TimeSteps == {50, 5000}
NormalState == "Normal"
ReduceState == "Reduce"

VARIABLES
    scream,       \* the ScreamCongestionControl
    now,          \* Instant::now(), in ms
    debug_build,  \* TRUE: arithmetic overflow panics; FALSE: it wraps
    ops,          \* number of controller events so far
    last,         \* the last event and what it returned
    eps,          \* the endpoints (KcpSocket), by endpoint id
    hist,         \* history: what the callers and the substrate have seen so far
    tasks         \* the tasks of the echo test, the endpoint mutexes, the UDP sockets

vars == <<scream, now, debug_build, ops, last, eps, hist, tasks>>

Min(a, b) == IF a <= b THEN a ELSE b
Max(a, b) == IF a >= b THEN a ELSE b
SatSub(a, b) == IF a >= b THEN a - b ELSE 0
Clamp(x, lo, hi) == Max(lo, Min(hi, x))

\* F applied to the value of x: x is evaluated once, as `let x = ...;` does
Bind(x, F(_)) == CHOOSE y \in {F(v) : v \in {x}} : TRUE

\* ------------------------------------------------------------ controller
NoPacket == [present |-> FALSE, timestamp |-> 0, size |-> 0]
PacketInfo(t, size) == [present |-> TRUE, timestamp |-> t, size |-> size]

ScreamNew(t) ==
    [ rtt |-> 100,
      base_rtt |-> 10000,
      min_rtt_in_window |-> 10000,
      base_rtt_update_time |-> t,
      state |-> NormalState,
      last_congestion_event_time |-> t,
      packets_in_flight |-> [sn \in SeqNums |-> NoPacket],
      bytes_in_flight |-> 0,
      target_bitrate |-> 1000000,
      pacing_rate |-> 1250000,
      ref_wnd |-> 4 * MSS,
      s_rtt |-> 0,
      pending_feedback |-> << >>,
      last_feedback_time |-> t,
      last_periodic_update_time |-> t,
      panicked |-> FALSE ]

\* `a + b` on a u32: panics with overflow checks, wraps without.
U32Add(c, a, b) ==
    IF a + b < U32 THEN [val |-> a + b, panicked |-> FALSE]
    ELSE IF debug_build THEN [val |-> a, panicked |-> TRUE]
    ELSE [val |-> (a + b) % U32, panicked |-> FALSE]

\* `a - b` on a u32: panics with overflow checks, wraps without.
U32Sub(c, a, b) ==
    IF a >= b THEN [val |-> a - b, panicked |-> FALSE]
    ELSE IF debug_build THEN [val |-> a, panicked |-> TRUE]
    ELSE [val |-> (a - b) % U32, panicked |-> FALSE]

\* ScreamCongestionControl::on_packet_sent
on_packet_sent(c, sn, size, t) ==
    LET r == U32Add(c, c.bytes_in_flight, size % U32) IN
    IF r.panicked THEN [c EXCEPT !.panicked = TRUE]
    ELSE [c EXCEPT !.bytes_in_flight = r.val,
                   !.packets_in_flight[sn] = PacketInfo(t, size)]

\* ScreamState::on_ack: the new state; target_bitrate is changed in place
StateOnAck(c, t) ==
    LET queuing_delay == SatSub(c.rtt, c.base_rtt) IN
    IF c.state = NormalState
    THEN IF queuing_delay > QDELAY_TARGET_HI
         THEN [c EXCEPT !.state = ReduceState]
         ELSE [c EXCEPT !.target_bitrate = c.target_bitrate + 20000]
    ELSE IF t - c.last_congestion_event_time < 5000
         THEN [c EXCEPT !.target_bitrate = (c.target_bitrate * 95) \div 100]
         ELSE IF queuing_delay < QDELAY_TARGET_LO
              THEN [c EXCEPT !.state = NormalState]
              ELSE c

\* An ack that deducts the size and leaves the record in the map
on_ack_keeping_record(c, sn, t) ==
    LET info == c.packets_in_flight[sn] IN
    IF ~info.present THEN c
    ELSE [c EXCEPT !.bytes_in_flight = SatSub(@, info.size % U32)]

\* ScreamCongestionControl::on_ack (skcp.rs calls it on_ack_kcp)
on_ack(c, sn, t) ==
    LET info == c.packets_in_flight[sn] IN
    IF ~info.present THEN c
    ELSE
      LET r == U32Sub(c, c.bytes_in_flight, info.size % U32)
          removed == [c EXCEPT !.packets_in_flight[sn] = NoPacket]
      IN
      IF r.panicked THEN [removed EXCEPT !.panicked = TRUE]
      ELSE
        LET c1 == [removed EXCEPT !.bytes_in_flight = r.val]
            latest_rtt == t - info.timestamp
        IN
        IF latest_rtt = 0 THEN c1
        ELSE
          LET c2 == [c1 EXCEPT !.rtt = latest_rtt]
              c3 == IF t - c2.base_rtt_update_time >= BASE_RTT_WINDOW
                    THEN [c2 EXCEPT !.base_rtt_update_time = t,
                                    !.base_rtt = c2.min_rtt_in_window]
                    ELSE c2
              c4 == [c3 EXCEPT !.min_rtt_in_window = Min(c3.min_rtt_in_window, latest_rtt)]
              c5 == StateOnAck(c4, t)
          IN [c5 EXCEPT !.target_bitrate = Clamp(c5.target_bitrate, MinBitrate, MaxBitrate)]

\* ScreamState::on_packet_loss
StateOnPacketLoss(c, sn, t) ==
    LET c1 == [c EXCEPT !.target_bitrate = (c.target_bitrate * 7) \div 10,
                        !.last_congestion_event_time = t]
        info == c1.packets_in_flight[sn]
        c2 == IF info.present
              THEN [c1 EXCEPT !.packets_in_flight[sn] = NoPacket,
                              !.bytes_in_flight = SatSub(c1.bytes_in_flight, info.size % U32)]
              ELSE c1
    IN [c2 EXCEPT !.state = ReduceState]

\* ScreamCongestionControl::on_packet_loss
on_packet_loss(c, sn, t) ==
    LET c1 == StateOnPacketLoss(c, sn, t) IN
    [c1 EXCEPT !.target_bitrate = Clamp(c1.target_bitrate, MinBitrate, MaxBitrate)]

\* Sum of the sizes of the records in the in-flight map
RECURSIVE SumSizes(_, _)
SumSizes(pif, S) ==
    IF S = {} THEN 0
    ELSE LET sn == CHOOSE x \in S : TRUE
         IN (IF pif[sn].present THEN pif[sn].size ELSE 0) + SumSizes(pif, S \ {sn})

InFlightSum(c) == SumSizes(c.packets_in_flight, SeqNums)

\* --------------------------------------------- feedback (spec 4.2.5 and 6)
SCREAM_FEEDBACK_HEADER == 1548568130   \* 0x5C4D4642

\* The n little-endian bytes of x (put_u32_le, to_le_bytes)
RECURSIVE ToLE(_, _)
ToLE(x, n) == IF n = 0 THEN << >> ELSE <<x % 256>> \o ToLE(x \div 256, n - 1)

\* The number a little-endian byte string stands for (from_le_bytes)
RECURSIVE FromLE(_)
FromLE(b) == IF b = << >> THEN 0 ELSE b[1] + 256 * FromLE(Tail(b))

FeedbackRecordLen == 12

\* on_packet_received(s, t): append (s, wall_clock_ms(t)) to the pending list
on_packet_received(c, sn, t) ==
    [c EXCEPT !.pending_feedback = Append(@, [sn |-> sn, ms |-> t])]

RECURSIVE SerialiseFeedback(_)
SerialiseFeedback(pending) ==
    IF pending = << >> THEN << >>
    ELSE ToLE(Head(pending).sn, 4) \o ToLE(Head(pending).ms, 8)
         \o SerialiseFeedback(Tail(pending))

\* create_feedback_packet(): none when nothing is pending, else the records
\* serialised, and the list cleared
create_feedback_packet(c, t) ==
    IF c.pending_feedback = << >>
    THEN [c |-> c, some |-> FALSE, data |-> << >>]
    ELSE [c |-> [c EXCEPT !.pending_feedback = << >>, !.last_feedback_time = t],
          some |-> TRUE,
          data |-> SerialiseFeedback(c.pending_feedback)]

\* The (sequence, reception_ms) records of a feedback payload: whole 12-byte
\* chunks, a shorter tail ignored
RECURSIVE ParseFeedback(_)
ParseFeedback(bytes) ==
    IF Len(bytes) < FeedbackRecordLen THEN << >>
    ELSE <<[sn |-> FromLE(SubSeq(bytes, 1, 4)), ms |-> FromLE(SubSeq(bytes, 5, 12))]>>
         \o ParseFeedback(SubSeq(bytes, FeedbackRecordLen + 1, Len(bytes)))

\* on_ack_scream(s, t_arrival): the RTT estimators of spec 4.2.1, and the
\* in-flight record removed
on_ack_scream(c, sn, t) ==
    IF sn \notin SeqNums \/ ~c.packets_in_flight[sn].present THEN c
    ELSE
      LET info == c.packets_in_flight[sn]
          c1 == [c EXCEPT !.packets_in_flight[sn] = NoPacket,
                          !.bytes_in_flight = SatSub(c.bytes_in_flight, info.size % U32)]
          latest_rtt == t - info.timestamp
      IN
      IF latest_rtt = 0 THEN c1
      ELSE
        LET c2 == [c1 EXCEPT !.rtt = latest_rtt,
                             !.s_rtt = IF c1.s_rtt = 0 THEN latest_rtt
                                       ELSE (7 * c1.s_rtt + latest_rtt) \div 8,
                             !.min_rtt_in_window = Min(c1.min_rtt_in_window, latest_rtt)]
        IN IF t - c2.base_rtt_update_time >= BASE_RTT_WINDOW
           THEN [c2 EXCEPT !.base_rtt_update_time = t,
                           !.base_rtt = c2.min_rtt_in_window,
                           !.min_rtt_in_window = 10000]
           ELSE c2

\* on_feedback(bytes, t_arrival): on_ack_scream for every record, in order.
\* acked lists the sequence numbers on_ack_scream was called with.
RECURSIVE AckRecords(_, _, _)
AckRecords(r, records, t) ==
    IF records = << >> THEN r
    ELSE Bind([c |-> on_ack_scream(r.c, Head(records).sn, t),
               acked |-> Append(r.acked, Head(records).sn)],
              LAMBDA r1 : AckRecords(r1, Tail(records), t))

on_feedback(c, bytes, t) ==
    Bind(ParseFeedback(bytes), LAMBDA records :
         AckRecords([c |-> c, acked |-> << >>], records, t))

\* A loop that stops after the first push
ReceivedPushesFirstOnly(c, pushes, t) ==
    IF pushes = << >> THEN c ELSE on_packet_received(c, Head(pushes), t)

\* KcpSocket::input, the loop over the pushes ARQ.input reports
RECURSIVE ReceivedPushes(_, _, _)
ReceivedPushes(c, pushes, t) ==
    IF pushes = << >> THEN c
    ELSE Bind(on_packet_received(c, Head(pushes), t),
              LAMBDA c1 : ReceivedPushes(c1, Tail(pushes), t))

\* A framing that writes the magic most significant byte first
FeedbackDatagramBigEndian(feedback_data) ==
    [i \in 1..4 |-> ToLE(SCREAM_FEEDBACK_HEADER, 4)[5 - i]] \o feedback_data

\* KcpSocket::update, the framing of a feedback datagram
FeedbackDatagram(feedback_data) == ToLE(SCREAM_FEEDBACK_HEADER, 4) \o feedback_data

\* -------------------------------------------------------------- datagrams
\* A datagram is its first four bytes (head) and what follows.  arq says that
\* the bytes are well-formed ARQ framing: conv, the advertised window, acks
\* and push segments.  A feedback datagram carries its raw bytes.
ArqDatagram(conv, wnd, acks, segs) ==
    [head |-> ToLE(conv, 4), arq |-> TRUE, conv |-> conv, wnd |-> wnd,
     acks |-> acks, segs |-> segs, bytes |-> << >>]

RawDatagram(bytes) ==
    [head |-> SubSeq(bytes, 1, 4), arq |-> FALSE, conv |-> 0, wnd |-> 0,
     acks |-> << >>, segs |-> << >>, bytes |-> bytes]

\* ------------------------------------------- the ARQ engine (spec section 6)
\* Payload is counted in blocks of one MSS; a full segment on the wire is one
\* unit of 1024 bytes (MSS + the 24-byte header).
SegWireSize == 1

KcpNew(conv) ==
    [ conv |-> conv, input_conv |-> FALSE,
      snd_wnd |-> InitSndWnd, rcv_wnd |-> InitRcvWnd, rmt_wnd |-> InitRmtWnd,
      snd_queue |-> << >>, snd_buf |-> << >>, snd_nxt |-> 0,
      rcv_nxt |-> 0, rcv_buf |-> {}, rcv_queue |-> << >>, acklist |-> << >> ]

wait_snd(k) == Len(k.snd_buf) + Len(k.snd_queue)
waiting_conv(k) == k.input_conv
KcpInputConv(k) == [k EXCEPT !.input_conv = TRUE]
KcpSend(k, buf) == [k EXCEPT !.snd_queue = @ \o buf]
KcpFreeWnd(k) == SatSub(k.rcv_wnd, Len(k.rcv_queue))
KcpSndUna(k) == IF k.snd_buf = << >> THEN k.snd_nxt ELSE k.snd_buf[1].sn

\* Segments of the receive buffer that are next in order move to the
\* receive queue while it has room.
RECURSIVE KcpMoveToRcvQueue(_)
KcpMoveToRcvQueue(k) ==
    IF Len(k.rcv_queue) < k.rcv_wnd /\ \E g \in k.rcv_buf : g.sn = k.rcv_nxt
    THEN Bind(CHOOSE x \in k.rcv_buf : x.sn = k.rcv_nxt, LAMBDA g :
         Bind([k EXCEPT !.rcv_buf = @ \ {g},
                        !.rcv_queue = Append(@, g.data),
                        !.rcv_nxt = @ + 1], LAMBDA k1 : KcpMoveToRcvQueue(k1)))
    ELSE k

\* flush_ack: the pending acks as one datagram
KcpFlushAck(k) ==
    [ k |-> [k EXCEPT !.acklist = << >>],
      out |-> IF k.acklist = << >> THEN << >>
              ELSE <<ArqDatagram(k.conv, KcpFreeWnd(k), k.acklist, << >>)>> ]

\* The segments of buf that flush() emits at time t: those never sent and
\* those whose retransmission timer expired.
SegDue(g, t) == ~g.sent \/ t >= g.resendts

SegsFirst(buf) == SelectSeq(buf, LAMBDA g : ~g.sent)
SegsAgain(buf, t) == SelectSeq(buf, LAMBDA g : g.sent /\ t >= g.resendts)
SegsDue(buf, t) == SelectSeq(buf, LAMBDA g : SegDue(g, t))

\* The number of segments flush() moves from the send queue to the send
\* buffer: what min(snd_wnd, rmt_wnd) admits past snd_una.
KcpAdmitted(k) ==
    Min(Len(k.snd_queue), SatSub(KcpSndUna(k) + Min(k.snd_wnd, k.rmt_wnd), k.snd_nxt))

\* flush(): the acks, then the segments the window admits (first
\* transmissions, reported as newly sent) and those whose retransmission
\* timer expired (reported as lost).
KcpFlush(k, t) ==
    Bind(KcpFlushAck(k), LAMBDA fa :
    Bind(KcpAdmitted(fa.k), LAMBDA m :
    Bind(fa.k.snd_buf \o
         [i \in 1..m |-> [sn |-> fa.k.snd_nxt + i - 1, data |-> fa.k.snd_queue[i],
                          sent |-> FALSE, resendts |-> t]], LAMBDA buf :
    Bind([emitted |-> SegsDue(buf, t), first |-> SegsFirst(buf),
          again |-> SegsAgain(buf, t)], LAMBDA s :
      [ k |-> [fa.k EXCEPT !.snd_queue = SubSeq(@, m + 1, Len(@)),
                           !.snd_buf = [i \in 1..Len(buf) |->
                                          IF SegDue(buf[i], t)
                                          THEN [buf[i] EXCEPT !.sent = TRUE,
                                                              !.resendts = t + Rto]
                                          ELSE buf[i]],
                           !.snd_nxt = @ + m],
        out |-> fa.out \o
                [i \in 1..Len(s.emitted) |->
                   ArqDatagram(fa.k.conv, KcpFreeWnd(fa.k), << >>,
                               <<[sn |-> s.emitted[i].sn, data |-> s.emitted[i].data]>>)],
        lost |-> [i \in 1..Len(s.again) |-> s.again[i].sn],
        new |-> [i \in 1..Len(s.first) |-> <<s.first[i].sn, SegWireSize>>] ]))))

\* input(bytes): a datagram that is not ARQ framing, or carries another
\* conversation, is a protocol error; an engine that waits for its
\* conversation id takes the one of the datagram when it differs from its own.  Otherwise the acked segments leave the
\* send buffer and the pushes inside the receive window are acked and, when
\* new, buffered; both are reported.
KcpAck(r, sn) ==
    IF \E i \in 1..Len(r.k.snd_buf) : r.k.snd_buf[i].sn = sn
    THEN [ r EXCEPT !.k.snd_buf = SelectSeq(@, LAMBDA g : g.sn # sn),
                    !.acked = Append(@, <<sn, SegWireSize>>) ]
    ELSE r

RECURSIVE KcpAcks(_, _)
KcpAcks(r, acks) ==
    IF acks = << >> THEN r
    ELSE Bind(KcpAck(r, Head(acks)), LAMBDA r1 : KcpAcks(r1, Tail(acks)))

KcpPush(r, g) ==
    LET inwnd == g.sn < r.k.rcv_nxt + r.k.rcv_wnd
        fresh == g.sn >= r.k.rcv_nxt /\ ~\E h \in r.k.rcv_buf : h.sn = g.sn
    IN Bind(IF inwnd /\ fresh
            THEN [r EXCEPT !.k.acklist = Append(@, g.sn),
                           !.k.rcv_buf = @ \cup {g},
                           !.pushes = Append(@, g.sn)]
            ELSE IF inwnd THEN [r EXCEPT !.k.acklist = Append(@, g.sn)] ELSE r,
            LAMBDA r1 : [r1 EXCEPT !.k = KcpMoveToRcvQueue(r1.k)])

RECURSIVE KcpPushes(_, _)
KcpPushes(r, segs) ==
    IF segs = << >> THEN r
    ELSE Bind(KcpPush(r, Head(segs)), LAMBDA r1 : KcpPushes(r1, Tail(segs)))

KcpInput(k, d) ==
    IF ~d.arq \/ (d.conv # k.conv /\ ~(k.conv = 0 /\ k.input_conv))
    THEN [err |-> TRUE, k |-> k, acked |-> << >>, pushes |-> << >>]
    ELSE Bind([err |-> FALSE,
               k |-> [k EXCEPT !.conv = d.conv,
                               !.input_conv = IF d.conv # k.conv THEN FALSE ELSE @,
                               !.rmt_wnd = d.wnd],
               acked |-> << >>, pushes |-> << >>], LAMBDA r0 :
         Bind(KcpAcks(r0, d.acks), LAMBDA r1 : KcpPushes(r1, d.segs)))

\* The payload of a zero-length message
EmptyMsg == ""

\* recv(buf): the next message of the receive queue (no block for a
\* zero-length message)
KcpRecv(k) ==
    IF k.rcv_queue = << >> THEN [err |-> TRUE, k |-> k, data |-> << >>]
    ELSE [err |-> FALSE,
          k |-> Bind([k EXCEPT !.rcv_queue = Tail(@)], LAMBDA k1 : KcpMoveToRcvQueue(k1)),
          data |-> IF Head(k.rcv_queue) = EmptyMsg THEN << >> ELSE <<Head(k.rcv_queue)>>]

\* peeksize(): an error on an empty receive queue, else the size of the
\* message at its head
KcpPeekOk(k) == k.rcv_queue # << >>
KcpPeekSize(k) == IF Head(k.rcv_queue) = EmptyMsg THEN 0 ELSE 1

\* ------------------------------------------------------------ the pacer
\* A try_send on a channel without a capacity
PacerWriteUnbounded(q, d) == Append(q, d)

\* impl Write for PacerOutput: try_send on the bounded channel; a full
\* channel drops the datagram and still reports success.
PacerWrite(q, d) == IF Len(q) < PacerCap THEN Append(q, d) ELSE q

RECURSIVE PacerWriteAll(_, _)
PacerWriteAll(q, ds) ==
    IF ds = << >> THEN q
    ELSE Bind(PacerWrite(q, Head(ds)), LAMBDA q1 : PacerWriteAll(q1, Tail(ds)))

\* ------------------------------------------------------------ KcpSocket
NoWaker == "none"
Wakers == {"w1", "w2"}
WatchChannel(v) == [value |-> v, changed |-> FALSE]
WatchSend(ch, v) == [value |-> v, changed |-> TRUE]

KcpSocketNew(conv, cfg, t) ==
    [ kcp |-> IF conv = 0 THEN KcpInputConv(KcpNew(conv)) ELSE KcpNew(conv),
      scream |-> ScreamNew(t),
      out |-> << >>,
      pacing_rate_tx |-> WatchChannel(1000000),
      target_bitrate_tx |-> WatchChannel(500000),
      last_update |-> t,
      flush_write |-> cfg.flush_write,
      flush_ack_input |-> cfg.flush_acks_input,
      sent_first |-> FALSE,
      pending_sender |-> NoWaker,
      pending_receiver |-> NoWaker,
      closed |-> FALSE,
      allow_recv_empty_packet |-> cfg.allow_recv_empty_packet,
      trace |-> << >> ]

\* trace is history: the controller calls of the current endpoint call, as
\* <<"sent", sn>>, <<"loss", sn>>, <<"ack", sn>>, <<"push", sn>>, <<"feedback", sn>>
Called(ep) == [ep EXCEPT !.trace = << >>]
Events(kind, sns) == [i \in 1..Len(sns) |-> <<kind, sns[i]>>]
Firsts(pkts) == [i \in 1..Len(pkts) |-> pkts[i][1]]

RECURSIVE LossAll(_, _, _)
LossAll(c, sns, t) ==
    IF sns = << >> THEN c
    ELSE Bind(on_packet_loss(c, Head(sns), t), LAMBDA c1 : LossAll(c1, Tail(sns), t))

RECURSIVE SentAll(_, _, _)
SentAll(c, pkts, t) ==
    IF pkts = << >> THEN c
    ELSE Bind(on_packet_sent(c, Head(pkts)[1], Head(pkts)[2], t),
              LAMBDA c1 : SentAll(c1, Tail(pkts), t))

RECURSIVE AckAll(_, _, _)
AckAll(c, pkts, t) ==
    IF pkts = << >> THEN c
    ELSE Bind(on_ack(c, Head(pkts)[1], t), LAMBDA c1 : AckAll(c1, Tail(pkts), t))

\* A flush-result processor that records retransmissions as sent, too
process_flush_result_resending(c, lost, new, t) ==
    Bind(LossAll(c, lost, t), LAMBDA c1 :
      SentAll(c1, new \o [i \in 1..Len(lost) |-> <<lost[i], SegWireSize>>], t))

\* KcpSocket::process_flush_result
process_flush_result(c, lost, new, t) ==
    Bind(LossAll(c, lost, t), LAMBDA c1 : SentAll(c1, new, t))

\* self.kcp.flush()? followed by process_flush_result
FlushAndProcess(ep, t) ==
    Bind(KcpFlush(ep.kcp, t), LAMBDA fr :
      [ep EXCEPT !.kcp = fr.k,
                 !.out = PacerWriteAll(ep.out, fr.out),
                 !.scream = process_flush_result(ep.scream, fr.lost, fr.new, t),
                 !.trace = @ \o Events("loss", fr.lost) \o Events("sent", Firsts(fr.new))])

\* A back-pressure test that leaves out the wait for the conversation id
SendBlockedByWindows(ep) ==
    /\ ep.sent_first
    /\ \/ wait_snd(ep.kcp) >= ep.kcp.snd_wnd
       \/ wait_snd(ep.kcp) >= ep.kcp.rmt_wnd

SendBlocked(ep) ==
    /\ ep.sent_first
    /\ \/ wait_snd(ep.kcp) >= ep.kcp.snd_wnd
       \/ wait_snd(ep.kcp) >= ep.kcp.rmt_wnd
       \/ waiting_conv(ep.kcp)

\* pending.replace(cx.waker().clone()); a replaced waker of another task is woken
ReplacedWaker(old, w) == IF old # NoWaker /\ old # w THEN {old} ELSE {}

\* A poll_send_accept that queues the caller's buffer whole
SendBufWhole(ep, buf) == buf

\* The buffer poll_send queues: the first send of an endpoint that waits for
\* its conversation id is cut to one MSS.
SendBuf(ep, buf) ==
    IF ~ep.sent_first /\ waiting_conv(ep.kcp) /\ Len(buf) > 1 THEN SubSeq(buf, 1, 1) ELSE buf

\* KcpSocket::poll_send on an endpoint that is not blocked: the buffer is
\* queued, and flushed when a window is full or flush_write is set
poll_send_accept(ep, w, buf, t) ==
    Bind([ep EXCEPT !.kcp = KcpSend(@, SendBuf(ep, buf)), !.sent_first = TRUE], LAMBDA e1 :
    Bind(IF wait_snd(e1.kcp) >= e1.kcp.snd_wnd \/ wait_snd(e1.kcp) >= e1.kcp.rmt_wnd
         THEN FlushAndProcess(e1, t) ELSE e1, LAMBDA e2 :
    Bind([e2 EXCEPT !.last_update = t], LAMBDA e3 :
      [ep |-> IF e3.flush_write THEN FlushAndProcess(e3, t) ELSE e3,
       res |-> "Ok", n |-> Len(SendBuf(ep, buf)), woke |-> {}])))

\* KcpSocket::poll_send on an endpoint that is not closed
poll_send_open(ep, w, buf, t) ==
    IF SendBlocked(ep)
    THEN [ep |-> [ep EXCEPT !.pending_sender = w], res |-> "Pending", n |-> 0,
          woke |-> ReplacedWaker(ep.pending_sender, w)]
    ELSE poll_send_accept(ep, w, buf, t)

\* A poll_send that does not look at the closed flag
poll_send_ignoring_closed(ep, w, buf, t) == poll_send_open(ep, w, buf, t)

\* KcpSocket::poll_send.  n counts the blocks (of one MSS) accepted.
poll_send(ep, w, buf, t) ==
    IF ep.closed
    THEN [ep |-> ep, res |-> "BrokenPipe", n |-> 0, woke |-> {}]
    ELSE poll_send_open(ep, w, buf, t)

\* KcpSocket::try_recv
try_recv(ep) ==
    IF ep.closed THEN [ep |-> ep, res |-> "Ok", data |-> << >>]
    ELSE Bind(KcpRecv(ep.kcp), LAMBDA r :
         IF r.err THEN [ep |-> ep, res |-> "RecvQueueEmpty", data |-> << >>]
         ELSE [ep |-> [ep EXCEPT !.kcp = r.k], res |-> "Ok", data |-> r.data])

\* A poll_recv that leaves the message it returns in the ARQ receive queue
poll_recv_keeping(ep, w, t) ==
    IF ep.closed
    THEN [ep |-> ep, res |-> "Ok", data |-> << >>, woke |-> {}]
    ELSE
      Bind(KcpRecv(ep.kcp), LAMBDA r :
      IF ~r.err
      THEN [ep |-> [ep EXCEPT !.last_update = t],
            res |-> "Ok", data |-> r.data, woke |-> {}]
      ELSE [ep |-> [ep EXCEPT !.pending_receiver = w],
            res |-> "Pending", data |-> << >>,
            woke |-> ReplacedWaker(ep.pending_receiver, w)])

\* KcpSocket::poll_recv
poll_recv(ep, w, t) ==
    IF ep.closed
    THEN [ep |-> ep, res |-> "Ok", data |-> << >>, woke |-> {}]
    ELSE
      Bind(KcpRecv(ep.kcp), LAMBDA r :
      IF ~r.err /\ ~(Len(r.data) = 0 /\ ~ep.allow_recv_empty_packet)
      THEN [ep |-> [ep EXCEPT !.kcp = r.k, !.last_update = t],
            res |-> "Ok", data |-> r.data, woke |-> {}]
      ELSE [ep |-> [ep EXCEPT !.kcp = r.k, !.pending_receiver = w],
            res |-> "Pending", data |-> << >>,
            woke |-> ReplacedWaker(ep.pending_receiver, w)])

\* A try_wake_pending_waker that looks at the pending receiver only
try_wake_receiver_only(ep) ==
    LET wr == /\ ep.pending_receiver # NoWaker
              /\ KcpPeekOk(ep.kcp)
              /\ (ep.allow_recv_empty_packet \/ KcpPeekSize(ep.kcp) > 0)
    IN [ ep |-> [ep EXCEPT !.pending_receiver = IF wr THEN NoWaker ELSE @],
         waked |-> wr,
         woke |-> IF wr THEN {ep.pending_receiver} ELSE {} ]

\* KcpSocket::try_wake_pending_waker
try_wake_pending_waker(ep) ==
    LET ws == ep.pending_sender # NoWaker
              /\ wait_snd(ep.kcp) < ep.kcp.snd_wnd
              /\ wait_snd(ep.kcp) < ep.kcp.rmt_wnd
              /\ ~waiting_conv(ep.kcp)
        wr == /\ ep.pending_receiver # NoWaker
              /\ KcpPeekOk(ep.kcp)
              /\ (ep.allow_recv_empty_packet \/ KcpPeekSize(ep.kcp) > 0)
    IN [ ep |-> [ep EXCEPT !.pending_sender = IF ws THEN NoWaker ELSE @,
                           !.pending_receiver = IF wr THEN NoWaker ELSE @],
         waked |-> ws \/ wr,
         woke |-> (IF ws THEN {ep.pending_sender} ELSE {})
                  \cup (IF wr THEN {ep.pending_receiver} ELSE {}) ]

\* KcpSocket::input.  arq_in is the datagram handed to ARQ.input, fb_in the
\* bytes handed to the controller's on_feedback (none: the empty sequence),
\* pushes the sequence numbers handed to on_packet_received.
input(ep, d, t) ==
    Bind(KcpInput(ep.kcp, d), LAMBDA r :
    IF r.err
    THEN [ep |-> ep, res |-> "Err", woke |-> {}, arq_in |-> <<d>>, fb_in |-> << >>,
          pushes |-> << >>]
    ELSE
      Bind(AckAll(ep.scream, r.acked, t), LAMBDA c1 :
      Bind([ep EXCEPT !.kcp = r.k,
                      !.scream = ReceivedPushes(c1, r.pushes, t),
                      !.last_update = t,
                      !.trace = @ \o Events("ack", Firsts(r.acked))
                                  \o Events("push", r.pushes)], LAMBDA e1 :
      Bind(KcpFlushAck(e1.kcp), LAMBDA fa :
      Bind(IF e1.flush_ack_input
           THEN [e1 EXCEPT !.kcp = fa.k, !.out = PacerWriteAll(e1.out, fa.out)]
           ELSE e1, LAMBDA e2 :
      Bind(try_wake_pending_waker(e2), LAMBDA tw :
        [ep |-> tw.ep, res |-> "Ok", woke |-> tw.woke,
         arq_in |-> <<d>>, fb_in |-> << >>, pushes |-> r.pushes]))))))

\* on_rtt(): the RTT rollover of spec 4.2.4; the reference window that its
\* window increase and decrease leave is the input w.
on_rtt(c, t, w) == [c EXCEPT !.ref_wnd = w, !.last_periodic_update_time = t]

\* A conversion to u16 that keeps the low 16 bits
NewSndWindowWrapping(ref_wnd) == Max(ref_wnd \div MSS, 2) % 65536

\* (ref_wnd / mss as f32).max(2.0) as u16: a float to integer cast saturates
NewSndWindow(ref_wnd) == Min(Max(ref_wnd \div MSS, 2), 65535)

\* KcpSocket::update.  fb_out is the feedback datagram it emitted, if any.
update(ep, t, w) ==
    Bind(FlushAndProcess(ep, t), LAMBDA e1 :
    Bind(IF t - e1.scream.last_feedback_time >= FeedbackInterval
         THEN create_feedback_packet(e1.scream, t)
         ELSE [c |-> e1.scream, some |-> FALSE, data |-> << >>], LAMBDA fb :
    Bind(IF fb.some THEN <<RawDatagram(FeedbackDatagram(fb.data))>> ELSE << >>, LAMBDA pkt :
    Bind([e1 EXCEPT !.scream = fb.c, !.out = PacerWriteAll(e1.out, pkt)], LAMBDA e2 :
    Bind(IF t - e2.scream.last_periodic_update_time >= Max(e2.scream.s_rtt, MinRttPeriod)
         THEN [e2 EXCEPT !.scream = on_rtt(e2.scream, t, w)] ELSE e2, LAMBDA e3 :
    Bind([e3 EXCEPT !.kcp.snd_wnd = NewSndWindow(e3.scream.ref_wnd),
                    !.pacing_rate_tx = WatchSend(@, e3.scream.pacing_rate),
                    !.target_bitrate_tx = WatchSend(@, e3.scream.target_bitrate)], LAMBDA e4 :
    Bind(try_wake_pending_waker(e4), LAMBDA tw :
      [ep |-> tw.ep, res |-> "Ok", woke |-> tw.woke, fb_out |-> pkt])))))))

\* KcpSocket::flush
flush(ep, t) == [FlushAndProcess(ep, t) EXCEPT !.last_update = t]

\* KcpSocket::close
close(ep) ==
    [ ep |-> [ep EXCEPT !.closed = TRUE, !.pending_sender = NoWaker,
                        !.pending_receiver = NoWaker],
      woke |-> ({ep.pending_sender} \cup {ep.pending_receiver}) \ {NoWaker} ]

\* A can_close that does not look at the wait-send count
can_close_at_once(ep) == TRUE

\* KcpSocket::can_close
can_close(ep) == wait_snd(ep.kcp) = 0

\* -------------------------------------------------------------- endpoints
Endpoints == {1, 2}
Conv == 7           \* the conversation id the server side is created with
DefaultConfig ==
    [flush_write |-> FALSE, flush_acks_input |-> FALSE, allow_recv_empty_packet |-> FALSE]
Configs ==
    [flush_write : BOOLEAN, flush_acks_input : BOOLEAN, allow_recv_empty_packet : {FALSE}]
IdleEndpoints == [e \in Endpoints |-> KcpSocketNew(Conv, DefaultConfig, 0)]

NoTasks == << >>

\* ----------------------------------------------- SpecCtl: controller events
Event(op, sn, size) ==
    [op |-> op, sn |-> sn, size |-> size,
     before |-> scream.bytes_in_flight,
     held |-> IF scream.packets_in_flight[sn].present
              THEN scream.packets_in_flight[sn].size % U32 ELSE 0,
     was |-> hist[sn],
     elapsed |-> IF scream.packets_in_flight[sn].present
                 THEN now - scream.packets_in_flight[sn].timestamp ELSE 0,
     window_start |-> scream.base_rtt_update_time]

NoEvent == [op |-> "none", sn |-> 0, size |-> 0, before |-> 0, held |-> 0,
            was |-> "none", elapsed |-> 0, window_start |-> 0]

CtlInit ==
    /\ tasks = NoTasks
    /\ now = 0
    /\ eps = IdleEndpoints
    /\ scream = ScreamNew(0)
    /\ debug_build \in BOOLEAN
    /\ ops = 0
    /\ last = NoEvent
    /\ hist = [sn \in SeqNums |-> "none"]

CtlGuard == ~scream.panicked /\ ops < MaxOps

OnPacketSent(sn, size) ==
    /\ CtlGuard
    /\ scream' = on_packet_sent(scream, sn, size, now)
    /\ last' = Event("sent", sn, size)
    /\ ops' = ops + 1
    /\ hist' = [hist EXCEPT ![sn] = "sent"]
    /\ UNCHANGED <<now, debug_build, eps, tasks>>

OnAck(sn) ==
    /\ CtlGuard
    /\ scream' = on_ack(scream, sn, now)
    /\ last' = Event("ack", sn, 0)
    /\ ops' = ops + 1
    /\ hist' = [hist EXCEPT ![sn] = "acked"]
    /\ UNCHANGED <<now, debug_build, eps, tasks>>

OnPacketLoss(sn) ==
    /\ CtlGuard
    /\ scream' = on_packet_loss(scream, sn, now)
    /\ last' = Event("loss", sn, 0)
    /\ ops' = ops + 1
    /\ hist' = [hist EXCEPT ![sn] = "lost"]
    /\ UNCHANGED <<now, debug_build, eps, tasks>>

Advance(d) ==
    /\ CtlGuard
    /\ now' = now + d
    /\ ops' = ops + 1
    /\ UNCHANGED <<scream, debug_build, last, eps, hist, tasks>>

CtlNext ==
    \/ \E sn \in SeqNums, size \in Sizes : OnPacketSent(sn, size)
    \/ \E sn \in SeqNums : OnAck(sn)
    \/ \E sn \in SeqNums : OnPacketLoss(sn)
    \/ \E d \in TimeSteps : Advance(d)

SpecCtl == CtlInit /\ [][CtlNext]_vars

\* ------------------------------------- SpecSock: one endpoint and its callers
\* Endpoint 1 is driven by its callers (send, recv, flush, update, close) and
\* by the datagrams its socket receives.
Bufs == {<<"a">>, <<"a", "b">>}
RefWnds == {3000, 4000}
SockSteps == {FeedbackInterval, Rto}
FeedbackBytes == FeedbackDatagram(SerialiseFeedback(<<[sn |-> 0, ms |-> 10]>>))
SockDatagrams ==
    { ArqDatagram(Conv, 2, << >>, <<[sn |-> 0, data |-> "x"]>>),
      ArqDatagram(Conv, 2, << >>, <<[sn |-> 1, data |-> "y"]>>),
      ArqDatagram(Conv, 1, <<0>>, << >>),
      ArqDatagram(Conv, 2, <<0>>, << >>),
      ArqDatagram(Conv, 2, <<1>>, << >>),
      ArqDatagram(Conv + 1, 2, << >>, << >>),
      ArqDatagram(0, 2, << >>, << >>),
      RawDatagram(FeedbackBytes) }

Ret(op, res) ==
    [op |-> op, res |-> res, n |-> 0, data |-> << >>, woke |-> {}, w |-> NoWaker,
     d |-> << >>, arq_in |-> << >>, fb_in |-> << >>, fb_out |-> << >>,
     pushed |-> << >>, len |-> 0]

SockInit ==
    /\ tasks = NoTasks
    /\ now = 0
    /\ scream = ScreamNew(0)
    /\ debug_build = FALSE
    /\ ops = 0
    /\ last = Ret("none", "Ok")
    /\ hist = [pushed |-> << >>]
    /\ \E conv \in {0, Conv}, cfg \in Configs :
         eps = [IdleEndpoints EXCEPT ![1] = KcpSocketNew(conv, cfg, 0)]

SockPollSend(w, buf) ==
    /\ ops < MaxSockOps
    /\ eps[1].kcp.snd_nxt + Len(eps[1].kcp.snd_queue) + Len(buf) <= MaxSn + 1
    /\ \E r \in {poll_send(Called(eps[1]), w, buf, now)} :
       /\ eps' = [eps EXCEPT ![1] = r.ep]
       /\ last' = [Ret("poll_send", r.res) EXCEPT !.n = r.n, !.woke = r.woke, !.w = w,
                                                  !.len = Len(buf)]
    /\ ops' = ops + 1
    /\ UNCHANGED <<scream, now, debug_build, hist, tasks>>

SockPollRecv(w) ==
    /\ ops < MaxSockOps
    /\ \E r \in {poll_recv(Called(eps[1]), w, now)} :
       /\ eps' = [eps EXCEPT ![1] = r.ep]
       /\ last' = [Ret("poll_recv", r.res) EXCEPT !.data = r.data, !.woke = r.woke, !.w = w]
    /\ ops' = ops + 1
    /\ UNCHANGED <<scream, now, debug_build, hist, tasks>>

SockInput(d) ==
    /\ ops < MaxSockOps
    /\ Len(eps[1].kcp.acklist) + Len(d.segs) <= MaxAcks
    /\ \E r \in {input(Called(eps[1]), d, now)} :
       /\ eps' = [eps EXCEPT ![1] = r.ep]
       /\ last' = [Ret("input", r.res) EXCEPT !.woke = r.woke, !.d = <<d>>,
                                              !.arq_in = r.arq_in, !.fb_in = r.fb_in]
       /\ hist' = [hist EXCEPT !.pushed = @ \o r.pushes]
    /\ ops' = ops + 1
    /\ UNCHANGED <<scream, now, debug_build, tasks>>

SockUpdate(w) ==
    /\ ops < MaxSockOps
    /\ \E r \in {update(Called(eps[1]), now, w)} :
       /\ eps' = [eps EXCEPT ![1] = r.ep]
       /\ last' = [Ret("update", r.res) EXCEPT !.woke = r.woke, !.fb_out = r.fb_out,
                                               !.pushed = hist.pushed]
       /\ hist' = [hist EXCEPT !.pushed = IF r.fb_out # << >> THEN << >> ELSE @]
    /\ ops' = ops + 1
    /\ UNCHANGED <<scream, now, debug_build, tasks>>

SockFlush ==
    /\ ops < MaxSockOps
    /\ eps' = [eps EXCEPT ![1] = flush(Called(@), now)]
    /\ last' = Ret("flush", "Ok")
    /\ ops' = ops + 1
    /\ UNCHANGED <<scream, now, debug_build, hist, tasks>>

SockClose ==
    /\ ops < MaxSockOps
    /\ \E r \in {close(Called(eps[1]))} :
       /\ eps' = [eps EXCEPT ![1] = r.ep]
       /\ last' = [Ret("close", "Ok") EXCEPT !.woke = r.woke]
    /\ ops' = ops + 1
    /\ UNCHANGED <<scream, now, debug_build, hist, tasks>>

\* The pacer task takes the oldest datagram off the channel.
SockDrain ==
    /\ ops < MaxSockOps
    /\ eps[1].out # << >>
    /\ eps' = [eps EXCEPT ![1].out = Tail(@), ![1].trace = << >>]
    /\ last' = Ret("drain", "Ok")
    /\ ops' = ops + 1
    /\ UNCHANGED <<scream, now, debug_build, hist, tasks>>

SockAdvance(d) ==
    /\ ops < MaxSockOps
    /\ now + d <= MaxClock
    /\ now' = now + d
    /\ last' = Ret("advance", "Ok")
    /\ eps' = [eps EXCEPT ![1] = Called(@)]
    /\ ops' = ops + 1
    /\ UNCHANGED <<scream, debug_build, hist, tasks>>

SockNext ==
    \/ \E w \in Wakers, buf \in Bufs : SockPollSend(w, buf)
    \/ \E w \in Wakers : SockPollRecv(w)
    \/ \E d \in SockDatagrams : SockInput(d)
    \/ \E w \in RefWnds : SockUpdate(w)
    \/ SockFlush
    \/ SockClose
    \/ SockDrain
    \/ \E d \in SockSteps : SockAdvance(d)

SpecSock == SockInit /\ [][SockNext]_vars

\* ------------------------- SpecNet: two endpoints over a lossless substrate
\* Endpoint 1 sends, endpoint 2 receives.  The pacer of an endpoint takes the
\* oldest datagram off its channel and the substrate hands it to the peer's
\* input at once.  hist.sent and hist.rcvd are the blocks send accepted and
\* recv returned, hist.dropped says that a full pacer channel dropped a segment.
Peer(e) == 3 - e

\* The number of segments an endpoint call emitted, by its controller calls
Emitted(ep) == Len(SelectSeq(ep.trace, LAMBDA ev : ev[1] \in {"sent", "loss"}))

\* A call dropped a segment: the channel took fewer datagrams than the
\* segments emitted
DroppedSegment(before, after) == Len(after.out) - Len(before.out) < Emitted(after)

NetInit ==
    /\ tasks = NoTasks
    /\ now = 0
    /\ scream = ScreamNew(0)
    /\ debug_build = FALSE
    /\ ops = 0
    /\ last = Ret("none", "Ok")
    /\ eps = IdleEndpoints
    /\ hist = [sent |-> << >>, rcvd |-> << >>, dropped |-> FALSE]

NetSend(w, buf) ==
    /\ ops < MaxNetOps
    /\ Len(hist.sent) + Len(buf) <= MaxSn + 1
    /\ \E r \in {poll_send(Called(eps[1]), w, buf, now)} :
         /\ eps' = [eps EXCEPT ![1] = r.ep]
         /\ last' = [Ret("poll_send", r.res) EXCEPT !.n = r.n, !.woke = r.woke, !.w = w]
         /\ hist' = [hist EXCEPT !.sent = @ \o SubSeq(buf, 1, r.n),
                                 !.dropped = @ \/ DroppedSegment(eps[1], r.ep)]
    /\ ops' = ops + 1
    /\ UNCHANGED <<scream, now, debug_build, tasks>>

NetRecv(w) ==
    /\ ops < MaxNetOps
    /\ \E r \in {poll_recv(Called(eps[2]), w, now)} :
         /\ eps' = [eps EXCEPT ![2] = r.ep]
         /\ last' = [Ret("poll_recv", r.res) EXCEPT !.data = r.data, !.woke = r.woke, !.w = w]
         /\ hist' = [hist EXCEPT !.rcvd = @ \o r.data]
    /\ ops' = ops + 1
    /\ UNCHANGED <<scream, now, debug_build, tasks>>

NetUpdate(e, w) ==
    /\ ops < MaxNetOps
    /\ \E r \in {update(Called(eps[e]), now, w)} :
         /\ eps' = [eps EXCEPT ![e] = r.ep]
         /\ last' = [Ret("update", r.res) EXCEPT !.woke = r.woke, !.fb_out = r.fb_out]
         /\ hist' = [hist EXCEPT !.dropped = @ \/ DroppedSegment(eps[e], r.ep)]
    /\ ops' = ops + 1
    /\ UNCHANGED <<scream, now, debug_build, tasks>>

\* The pacer task of e sends its oldest datagram and the peer inputs it.
NetPace(e) ==
    /\ ops < MaxNetOps
    /\ eps[e].out # << >>
    /\ \E r \in {input(Called(eps[Peer(e)]), Head(eps[e].out), now)} :
         /\ eps' = [eps EXCEPT ![e].out = Tail(@), ![Peer(e)] = r.ep]
         /\ last' = [Ret("input", r.res) EXCEPT !.woke = r.woke, !.d = <<Head(eps[e].out)>>,
                                                !.arq_in = r.arq_in, !.fb_in = r.fb_in]
    /\ ops' = ops + 1
    /\ UNCHANGED <<scream, now, debug_build, hist, tasks>>

NetTick(d) ==
    /\ ops < MaxNetOps
    /\ now + d <= MaxClock
    /\ now' = now + d
    /\ last' = Ret("advance", "Ok")
    /\ ops' = ops + 1
    /\ UNCHANGED <<scream, debug_build, eps, hist, tasks>>

NetNext ==
    \/ \E w \in Wakers, buf \in Bufs : NetSend(w, buf)
    \/ \E w \in Wakers : NetRecv(w)
    \/ \E e \in Endpoints, w \in RefWnds : NetUpdate(e, w)
    \/ \E e \in Endpoints : NetPace(e)
    \/ \E d \in SockSteps : NetTick(d)

SpecNet == NetInit /\ [][NetNext]_vars

\* ------------------------------------------ SpecEcho: the kcp_echo test
\* Endpoint 1 is created with conv 0, endpoint 2 with Conv, each behind a
\* tokio Mutex (FIFO: tasks.mutex[e] lists the holder, then the waiters).
\* The update task of an endpoint locks, calls update and sleeps with the
\* lock held.  main sends one message on endpoint 1, then reads datagrams from
\* socket 1 and inputs them until try_recv returns the message.  The echo
\* task reads datagrams from socket 2, inputs them and sends back what
\* try_recv returns.  The pacer of an endpoint moves datagrams to the peer's
\* socket.  An unwrap() of an error panics the task.
Message == <<"a">>
Upd(e) == IF e = 1 THEN "upd1" ELSE "upd2"
TaskNames == {"main", "echo", "upd1", "upd2"}

\* An echo task that leaves the conversation id of the packet as it is
KeepConv(d) == d

\* kcp::get_conv(packet) == 0 => kcp::set_conv(packet, CONV)
SetConv(d) ==
    IF d.head = ToLE(0, 4) THEN [d EXCEPT !.conv = Conv, !.head = ToLE(Conv, 4)] ELSE d

Holds(t, e) == tasks.mutex[e] # << >> /\ Head(tasks.mutex[e]) = t
Running == tasks.pc["main"] \notin {"done", "panicked"}

EchoInit ==
    /\ now = 0
    /\ scream = ScreamNew(0)
    /\ debug_build = FALSE
    /\ ops = 0
    /\ last = Ret("none", "Ok")
    /\ hist = << >>
    /\ eps = [e \in Endpoints |->
                KcpSocketNew(IF e = 1 THEN 0 ELSE Conv, DefaultConfig, 0)]
    /\ tasks = [ pc |-> [t \in TaskNames |->
                           IF t = "main" THEN "start"
                           ELSE IF t = "echo" THEN "recv" ELSE "idle"],
                 mutex |-> [e \in Endpoints |-> << >>],
                 sock |-> [e \in Endpoints |-> << >>],
                 pkt |-> [t \in {"main", "echo"} |-> << >>],
                 got |-> << >> ]

\* kcp.lock().await, first half: the task joins the queue of the mutex
UpdLock(e) ==
    /\ Running /\ tasks.pc[Upd(e)] = "idle"
    /\ tasks' = [tasks EXCEPT !.pc[Upd(e)] = "locked", !.mutex[e] = Append(@, Upd(e))]
    /\ last' = Ret("lock", "Ok")
    /\ UNCHANGED <<scream, now, debug_build, ops, eps, hist>>

\* kcp.0.update().expect("update"), then sleep_until(next) with the lock held
UpdRun(e, w) ==
    /\ Running /\ tasks.pc[Upd(e)] = "locked" /\ Holds(Upd(e), e)
    /\ \E r \in {update(Called(eps[e]), now, w)} :
         /\ eps' = [eps EXCEPT ![e] = r.ep]
         /\ last' = [Ret("update", r.res) EXCEPT !.woke = r.woke, !.fb_out = r.fb_out]
    /\ tasks' = [tasks EXCEPT !.pc[Upd(e)] = "sleeping"]
    /\ UNCHANGED <<scream, now, debug_build, ops, hist>>

\* The sleep ends and the guard is dropped at the end of the loop body
UpdWake(e) ==
    /\ Running /\ tasks.pc[Upd(e)] = "sleeping"
    /\ tasks' = [tasks EXCEPT !.pc[Upd(e)] = "idle", !.mutex[e] = Tail(@)]
    /\ last' = Ret("unlock", "Ok")
    /\ UNCHANGED <<scream, now, debug_build, ops, eps, hist>>

MainLock ==
    /\ tasks.pc["main"] = "start"
    /\ tasks' = [tasks EXCEPT !.pc["main"] = "send", !.mutex[1] = Append(@, "main")]
    /\ last' = Ret("lock", "Ok")
    /\ UNCHANGED <<scream, now, debug_build, ops, eps, hist>>

\* kcp1.lock().await.0.send(SEND_BUFFER).await.unwrap(); assert_eq!(n, len):
\* a Pending send waits for its waker with the lock held
MainSend ==
    /\ tasks.pc["main"] = "send" /\ Holds("main", 1)
    /\ \E r \in {poll_send(Called(eps[1]), "w1", Message, now)} :
         /\ eps' = [eps EXCEPT ![1] = r.ep]
         /\ last' = [Ret("poll_send", r.res) EXCEPT !.n = r.n, !.w = "w1"]
         /\ tasks' =
              IF r.res = "Pending" THEN [tasks EXCEPT !.pc["main"] = "blocked"]
              ELSE IF r.res = "Ok" /\ r.n = Len(Message)
              THEN [tasks EXCEPT !.pc["main"] = "recv", !.mutex[1] = Tail(@)]
              ELSE [tasks EXCEPT !.pc["main"] = "panicked", !.mutex[1] = Tail(@)]
    /\ UNCHANGED <<scream, now, debug_build, ops, hist>>

\* s1.recv(&mut buf).await, then kcp1.lock().await, first half
MainRecv ==
    /\ tasks.pc["main"] = "recv" /\ tasks.sock[1] # << >>
    /\ tasks' = [tasks EXCEPT !.pc["main"] = "input",
                              !.pkt["main"] = <<Head(tasks.sock[1])>>,
                              !.sock[1] = Tail(@),
                              !.mutex[1] = Append(@, "main")]
    /\ last' = Ret("recv_from", "Ok")
    /\ UNCHANGED <<scream, now, debug_build, ops, eps, hist>>

\* kcp1.0.input(packet).unwrap(), then match kcp1.0.try_recv(&mut buf)
MainInput ==
    /\ tasks.pc["main"] = "input" /\ Holds("main", 1)
    /\ \E r \in {input(Called(eps[1]), tasks.pkt["main"][1], now)} :
         IF r.res = "Err"
         THEN /\ eps' = eps
              /\ last' = [Ret("input", "Err") EXCEPT !.d = tasks.pkt["main"]]
              /\ tasks' = [tasks EXCEPT !.pc["main"] = "panicked", !.mutex[1] = Tail(@),
                                        !.pkt["main"] = << >>]
         ELSE \E v \in {try_recv(r.ep)} :
              /\ eps' = [eps EXCEPT ![1] = v.ep]
              /\ last' = [Ret("input", v.res) EXCEPT !.d = tasks.pkt["main"],
                                                     !.data = v.data]
              /\ tasks' =
                   IF v.res = "RecvQueueEmpty"
                   THEN [tasks EXCEPT !.pc["main"] = "recv", !.mutex[1] = Tail(@),
                                      !.pkt["main"] = << >>]
                   ELSE [tasks EXCEPT !.pc["main"] = IF v.data = Message THEN "done"
                                                     ELSE "panicked",
                                      !.mutex[1] = Tail(@),
                                      !.pkt["main"] = << >>,
                                      !.got = v.data]
    /\ UNCHANGED <<scream, now, debug_build, ops, hist>>

\* s2.recv(&mut buf).await, the conv of the packet set, kcp2.lock().await
EchoRecv ==
    /\ Running /\ tasks.pc["echo"] = "recv" /\ tasks.sock[2] # << >>
    /\ tasks' = [tasks EXCEPT !.pc["echo"] = "input",
                              !.pkt["echo"] = <<SetConv(Head(tasks.sock[2]))>>,
                              !.sock[2] = Tail(@),
                              !.mutex[2] = Append(@, "echo")]
    /\ last' = Ret("recv_from", "Ok")
    /\ UNCHANGED <<scream, now, debug_build, ops, eps, hist>>

\* kcp2.0.input(packet).unwrap(), then try_recv and, on Ok, send(received)
EchoInput ==
    /\ Running /\ tasks.pc["echo"] = "input" /\ Holds("echo", 2)
    /\ \E r \in {input(Called(eps[2]), tasks.pkt["echo"][1], now)} :
         IF r.res = "Err"
         THEN /\ eps' = eps
              /\ last' = [Ret("input", "Err") EXCEPT !.d = tasks.pkt["echo"]]
              /\ tasks' = [tasks EXCEPT !.pc["echo"] = "panicked", !.mutex[2] = Tail(@),
                                        !.pkt["echo"] = << >>]
         ELSE \E v \in {try_recv(r.ep)} :
              IF v.res = "RecvQueueEmpty"
              THEN /\ eps' = [eps EXCEPT ![2] = v.ep]
                   /\ last' = [Ret("input", v.res) EXCEPT !.d = tasks.pkt["echo"]]
                   /\ tasks' = [tasks EXCEPT !.pc["echo"] = "recv", !.mutex[2] = Tail(@),
                                             !.pkt["echo"] = << >>]
              ELSE \E x \in {poll_send(v.ep, "w2", v.data, now)} :
                   /\ eps' = [eps EXCEPT ![2] = x.ep]
                   /\ last' = [Ret("input", x.res) EXCEPT !.d = tasks.pkt["echo"],
                                                          !.data = v.data, !.n = x.n]
                   /\ tasks' =
                        IF x.res = "Pending"
                        THEN [tasks EXCEPT !.pc["echo"] = "blocked", !.pkt["echo"] = << >>]
                        ELSE [tasks EXCEPT !.pc["echo"] = IF x.res = "Ok" THEN "recv"
                                                          ELSE "panicked",
                                           !.mutex[2] = Tail(@),
                                           !.pkt["echo"] = << >>]
    /\ UNCHANGED <<scream, now, debug_build, ops, hist>>

\* The pacer task of e sends its oldest datagram to the peer's socket.
EchoPace(e) ==
    /\ Running /\ eps[e].out # << >>
    /\ eps' = [eps EXCEPT ![e].out = Tail(@), ![e].trace = << >>]
    /\ tasks' = [tasks EXCEPT !.sock[Peer(e)] = Append(@, Head(eps[e].out))]
    /\ last' = Ret("send_to", "Ok")
    /\ UNCHANGED <<scream, now, debug_build, ops, hist>>

EchoTick(d) ==
    /\ Running /\ now + d <= MaxClock
    /\ now' = now + d
    /\ last' = Ret("advance", "Ok")
    /\ UNCHANGED <<scream, debug_build, ops, eps, hist, tasks>>

EchoNext ==
    \/ \E e \in Endpoints : UpdLock(e)
    \/ \E e \in Endpoints, w \in RefWnds : UpdRun(e, w)
    \/ \E e \in Endpoints : UpdWake(e)
    \/ MainLock
    \/ MainSend
    \/ MainRecv
    \/ MainInput
    \/ EchoRecv
    \/ EchoInput
    \/ \E e \in Endpoints : EchoPace(e)
    \/ \E d \in SockSteps : EchoTick(d)

\* The runtime runs every task that can run, and the pacer's timer fires.
EchoFairness ==
    /\ \A e \in Endpoints :
         /\ WF_vars(UpdLock(e))
         /\ WF_vars(\E w \in RefWnds : UpdRun(e, w))
         /\ WF_vars(UpdWake(e))
         /\ WF_vars(EchoPace(e))
    /\ WF_vars(MainLock) /\ WF_vars(MainSend) /\ WF_vars(MainRecv) /\ WF_vars(MainInput)
    /\ WF_vars(EchoRecv) /\ WF_vars(EchoInput)

SpecEcho == EchoInit /\ [][EchoNext]_vars /\ EchoFairness

\* ------------------------------- SpecFb: the feedback path of a controller
\* The controller is told of received pushes (KcpSocket::input), asked for a
\* feedback packet (KcpSocket::update) and handed the bytes of the last packet
\* it returned (on_feedback).  hist.given lists the sequence numbers passed to
\* on_packet_received since the last packet, hist.wire the bytes of the last
\* packet and hist.wire_given the sequence numbers that were pending for it.
PushLists == {<<0>>, <<1, 0>>, <<1, 1>>, <<300, 70000>>}
FbSteps == {7, 70000}

FbRet(op) == [op |-> op, some |-> FALSE, data |-> << >>, given |-> << >>, acked |-> << >>]

FbInit ==
    /\ tasks = NoTasks
    /\ now = 0
    /\ eps = IdleEndpoints
    /\ scream = ScreamNew(0)
    /\ debug_build = FALSE
    /\ ops = 0
    /\ last = FbRet("none")
    /\ hist = [given |-> << >>, wire |-> << >>, wire_given |-> << >>]

FbSent(sn) ==
    /\ ops < MaxFbOps
    /\ scream' = on_packet_sent(scream, sn, SegWireSize, now)
    /\ last' = FbRet("sent")
    /\ ops' = ops + 1
    /\ UNCHANGED <<now, debug_build, eps, hist, tasks>>

FbReceived(pushes) ==
    /\ ops < MaxFbOps
    /\ scream' = ReceivedPushes(scream, pushes, now)
    /\ hist' = [hist EXCEPT !.given = @ \o pushes]
    /\ last' = FbRet("received")
    /\ ops' = ops + 1
    /\ UNCHANGED <<now, debug_build, eps, tasks>>

FbCreate ==
    /\ ops < MaxFbOps
    /\ \E r \in {create_feedback_packet(scream, now)} :
         /\ scream' = r.c
         /\ last' = [FbRet("create") EXCEPT !.some = r.some, !.data = r.data,
                                            !.given = hist.given]
         /\ hist' = IF r.some
                    THEN [given |-> << >>, wire |-> r.data, wire_given |-> hist.given]
                    ELSE hist
    /\ ops' = ops + 1
    /\ UNCHANGED <<now, debug_build, eps, tasks>>

FbFeedback ==
    /\ ops < MaxFbOps
    /\ hist.wire # << >>
    /\ \E r \in {on_feedback(scream, hist.wire, now)} :
         /\ scream' = r.c
         /\ last' = [FbRet("feedback") EXCEPT !.acked = r.acked]
    /\ ops' = ops + 1
    /\ UNCHANGED <<now, debug_build, eps, hist, tasks>>

FbAdvance(d) ==
    /\ ops < MaxFbOps
    /\ now' = now + d
    /\ last' = FbRet("advance")
    /\ ops' = ops + 1
    /\ UNCHANGED <<scream, debug_build, eps, hist, tasks>>

FbNext ==
    \/ \E sn \in SeqNums : FbSent(sn)
    \/ \E pushes \in PushLists : FbReceived(pushes)
    \/ FbCreate
    \/ FbFeedback
    \/ \E d \in FbSteps : FbAdvance(d)

SpecFb == FbInit /\ [][FbNext]_vars

\* --------------------------------- SpecRecv: one endpoint and its receivers
\* Endpoint 1 is created with its conversation id and either empty-packet
\* policy; its receivers poll it while pushes, some of zero length, arrive.
RecvConfigs ==
    [flush_write : {FALSE}, flush_acks_input : BOOLEAN, allow_recv_empty_packet : BOOLEAN]
RecvDatagrams ==
    { ArqDatagram(Conv, 2, << >>, <<[sn |-> sn, data |-> data]>>) :
        sn \in {0, 1}, data \in {EmptyMsg, "x"} }

RecvInit ==
    /\ tasks = NoTasks
    /\ now = 0
    /\ scream = ScreamNew(0)
    /\ debug_build = FALSE
    /\ ops = 0
    /\ last = Ret("none", "Ok")
    /\ hist = [pushed |-> << >>]
    /\ \E cfg \in RecvConfigs :
         eps = [IdleEndpoints EXCEPT ![1] = KcpSocketNew(Conv, cfg, 0)]

RecvNext ==
    \/ \E w \in Wakers : SockPollRecv(w)
    \/ \E d \in RecvDatagrams : SockInput(d)
    \/ \E w \in RefWnds : SockUpdate(w)
    \/ SockClose

SpecRecv == RecvInit /\ [][RecvNext]_vars

\* ------------------------------ SpecClose: an endpoint that sends and closes
\* Endpoint 1, created with or without a conversation id, sends and is
\* closed.  The runtime keeps driving update() on both endpoints, the pacers
\* send what is queued, and the peer (the echo task's loop: the conversation
\* id set on a packet that has none, input, try_recv) keeps acknowledging.
\* No retransmission timer expires.
CloseInit ==
    /\ tasks = NoTasks
    /\ now = 0
    /\ scream = ScreamNew(0)
    /\ debug_build = FALSE
    /\ ops = 0
    /\ last = Ret("none", "Ok")
    /\ hist = << >>
    /\ \E conv \in {0, Conv} :
         eps = [IdleEndpoints EXCEPT ![1] = KcpSocketNew(conv, DefaultConfig, 0)]

CloseSend(buf) ==
    /\ ~eps[1].closed
    /\ eps[1].kcp.snd_nxt + Len(eps[1].kcp.snd_queue) + Len(buf) <= MaxSn + 1
    /\ \E r \in {poll_send(Called(eps[1]), "w1", buf, now)} :
       /\ eps' = [eps EXCEPT ![1] = r.ep]
       /\ last' = [Ret("poll_send", r.res) EXCEPT !.n = r.n, !.woke = r.woke, !.w = "w1",
                                                  !.len = Len(buf)]
    /\ UNCHANGED <<scream, now, debug_build, ops, hist, tasks>>

CloseRecv ==
    /\ ~eps[1].closed
    /\ \E r \in {poll_recv(Called(eps[1]), "w2", now)} :
       /\ eps' = [eps EXCEPT ![1] = r.ep]
       /\ last' = [Ret("poll_recv", r.res) EXCEPT !.data = r.data, !.woke = r.woke,
                                                  !.w = "w2"]
    /\ UNCHANGED <<scream, now, debug_build, ops, hist, tasks>>

CloseClose ==
    /\ ~eps[1].closed
    /\ \E r \in {close(Called(eps[1]))} :
       /\ eps' = [eps EXCEPT ![1] = r.ep]
       /\ last' = [Ret("close", "Ok") EXCEPT !.woke = r.woke]
    /\ UNCHANGED <<scream, now, debug_build, ops, hist, tasks>>

CloseUpdate(e, w) ==
    /\ \E r \in {update(Called(eps[e]), now, w)} :
       /\ eps' = [eps EXCEPT ![e] = r.ep]
       /\ last' = [Ret(IF e = 1 THEN "update" ELSE "peer_update", r.res)
                     EXCEPT !.woke = r.woke, !.fb_out = r.fb_out]
    /\ UNCHANGED <<scream, now, debug_build, ops, hist, tasks>>

\* The pacer of endpoint 1 sends its oldest datagram; the peer inputs it and
\* reads what arrived.
ClosePeerInput ==
    /\ eps[1].out # << >>
    /\ \E r \in {input(Called(eps[2]), SetConv(Head(eps[1].out)), now)} :
       /\ eps' = [eps EXCEPT ![1].out = Tail(@),
                             ![2] = IF r.res = "Ok" THEN try_recv(r.ep).ep ELSE r.ep]
       /\ last' = [Ret("peer_input", r.res) EXCEPT !.d = <<Head(eps[1].out)>>]
    /\ UNCHANGED <<scream, now, debug_build, ops, hist, tasks>>

\* The pacer of the peer sends its oldest datagram and endpoint 1 inputs it.
CloseInput ==
    /\ eps[2].out # << >>
    /\ \E r \in {input(Called(eps[1]), Head(eps[2].out), now)} :
       /\ eps' = [eps EXCEPT ![2].out = Tail(@), ![1] = r.ep]
       /\ last' = [Ret("input", r.res) EXCEPT !.woke = r.woke, !.d = <<Head(eps[2].out)>>,
                                              !.arq_in = r.arq_in, !.fb_in = r.fb_in]
    /\ UNCHANGED <<scream, now, debug_build, ops, hist, tasks>>

CloseNext ==
    \/ \E buf \in Bufs : CloseSend(buf)
    \/ CloseRecv
    \/ CloseClose
    \/ \E e \in Endpoints, w \in RefWnds : CloseUpdate(e, w)
    \/ ClosePeerInput
    \/ CloseInput

\* update() keeps being driven on both endpoints and the pacers run.
CloseFairness ==
    /\ \A e \in Endpoints : WF_vars(\E w \in RefWnds : CloseUpdate(e, w))
    /\ WF_vars(ClosePeerInput)
    /\ WF_vars(CloseInput)

SpecClose == CloseInit /\ [][CloseNext]_vars /\ CloseFairness

\* ------------------------------ SpecPacer: the pacer task and its channels
\* The pacer task (tasks) with the datagram channel the ARQ engine writes to
\* and the watch channel update() publishes the pacing rate on.  Time is in
\* ms, rates in bits/s; datagrams are numbered in the order they are written.
PacerRates == {0, 500000, 2000000}
PacerSteps == {4}

\* PacketPacer::calculate_interval, in ms
calculate_interval(pacing_rate_bps) ==
    IF pacing_rate_bps < 1 THEN 1000
    ELSE IF pacing_rate_bps < MSS * 8 THEN 1000
    ELSE (1000 * MSS * 8) \div pacing_rate_bps

\* The state of the spawned task after `timer.tick().await`: the rate read
\* from the watch channel, the interval computed from it, and the timer
\* (time::interval(interval)) with its period and next deadline.  alive says
\* that the task and its end of the datagram channel exist, handles that a
\* sender of the datagram channel (the PacketPacer of the endpoint) exists,
\* rate_open that the sender of the watch channel exists.
PacketPacerNew(rx, t) ==
    [ packet_q |-> << >>, alive |-> TRUE, handles |-> TRUE, rate_open |-> TRUE,
      pacing_rate_rx |-> rx,
      pacing_rate |-> rx.value,
      interval |-> calculate_interval(rx.value),
      period |-> calculate_interval(rx.value),
      deadline |-> t + calculate_interval(rx.value) ]

\* impl Write for PacerOutput, write: Closed is BrokenPipe, a full channel
\* is Ok.
PacerOutputWrite(p, d) ==
    IF ~p.alive THEN [p |-> p, res |-> "BrokenPipe"]
    ELSE [p |-> [p EXCEPT !.packet_q = PacerWrite(@, d)], res |-> "Ok"]

\* A receiver that keeps the value it saw first
borrow_stale(p) == p.pacing_rate

\* *pacing_rate_rx.borrow_and_update(): the value last sent
borrow_and_update(p) == p.pacing_rate_rx.value

\* The rate-change branch of the select loop
rate_changed(p, t) ==
    [p EXCEPT !.pacing_rate = borrow_and_update(p),
              !.pacing_rate_rx.changed = FALSE,
              !.interval = calculate_interval(borrow_and_update(p)),
              !.deadline = t + p.period]

\* A tick that sends everything queued
timer_tick_burst(p, ok) ==
    [ p |-> [p EXCEPT !.deadline = @ + p.period, !.packet_q = << >>],
      tried |-> p.packet_q,
      sent |-> IF ok THEN p.packet_q ELSE << >> ]

\* The timer.tick() branch of the select loop: try_recv, then send_to, whose
\* error (ok = FALSE) is logged.  tried is what was handed to send_to, sent
\* what it sent.  An empty channel without senders is Disconnected: break.
timer_tick(p, ok) ==
    [ p |-> [p EXCEPT !.deadline = @ + p.period,
                      !.packet_q = IF @ = << >> THEN @ ELSE Tail(@),
                      !.alive = ~(p.packet_q = << >> /\ ~p.handles)],
      tried |-> IF p.packet_q = << >> THEN << >> ELSE <<Head(p.packet_q)>>,
      sent |-> IF p.packet_q = << >> \/ ~ok THEN << >> ELSE <<Head(p.packet_q)>> ]

PacerRet(op, res) ==
    [op |-> op, res |-> res, d |-> 0, tried |-> << >>, sent |-> << >>, ok |-> TRUE]

PacerInit ==
    /\ now = 0
    /\ scream = ScreamNew(0)
    /\ debug_build = FALSE
    /\ ops = 0
    /\ eps = IdleEndpoints
    /\ last = PacerRet("none", "Ok")
    /\ tasks = PacketPacerNew(WatchChannel(1000000), 0)
    /\ hist = [written |-> 0, queued |-> << >>, tried |-> << >>, published |-> << >>,
               adopted |-> 0, rates |-> << >>]

\* The ARQ engine writes its next datagram to the PacerOutput.
PacerEnqueue ==
    /\ hist.written < MaxPkts
    /\ \E r \in {PacerOutputWrite(tasks, hist.written + 1)} :
       /\ tasks' = r.p
       /\ last' = [PacerRet("write", r.res) EXCEPT !.d = hist.written + 1]
       /\ hist' = [hist EXCEPT !.written = @ + 1,
                               !.queued = IF Len(r.p.packet_q) > Len(tasks.packet_q)
                                          THEN Append(@, hist.written + 1) ELSE @]
    /\ UNCHANGED <<scream, now, debug_build, ops, eps>>

\* update() publishes a pacing rate: pacing_rate_tx.send(new_pacing_rate)
PacerPublish(v) ==
    /\ Len(hist.published) < MaxPublishes
    /\ tasks' = [tasks EXCEPT !.pacing_rate_rx = WatchSend(@, v)]
    /\ last' = PacerRet("publish", "Ok")
    /\ hist' = [hist EXCEPT !.published = Append(@, v)]
    /\ UNCHANGED <<scream, now, debug_build, ops, eps>>

\* select!, biased: the rate-change branch is taken when a rate is unseen
PacerRateChange ==
    /\ tasks.alive /\ tasks.pacing_rate_rx.changed
    /\ tasks' = rate_changed(tasks, now)
    /\ last' = PacerRet("rate", "Ok")
    /\ hist' = [hist EXCEPT !.adopted = Len(hist.published),
                            !.rates = Append(@, rate_changed(tasks, now).pacing_rate)]
    /\ UNCHANGED <<scream, now, debug_build, ops, eps>>

\* select!, biased: the timer branch, once the deadline of the timer is reached
PacerTick(ok) ==
    /\ tasks.alive /\ ~tasks.pacing_rate_rx.changed
    /\ now >= tasks.deadline
    /\ \E r \in {timer_tick(tasks, ok)} :
       /\ tasks' = r.p
       /\ last' = [PacerRet("tick", IF r.tried # << >> /\ ~ok THEN "Err" ELSE "Ok")
                     EXCEPT !.tried = r.tried, !.sent = r.sent, !.ok = ok]
       /\ hist' = [hist EXCEPT !.tried = @ \o r.tried]
    /\ UNCHANGED <<scream, now, debug_build, ops, eps>>

PacerAdvance(d) ==
    /\ now + d <= MaxPacerClock
    /\ now' = now + d
    /\ last' = PacerRet("advance", "Ok")
    /\ UNCHANGED <<scream, debug_build, ops, eps, hist, tasks>>

\* The task is aborted (the runtime shuts down): its receivers are dropped.
PacerAbort ==
    /\ tasks.alive
    /\ tasks' = [tasks EXCEPT !.alive = FALSE, !.packet_q = << >>]
    /\ last' = PacerRet("abort", "Ok")
    /\ UNCHANGED <<scream, now, debug_build, ops, eps, hist>>

PacerNext ==
    \/ PacerEnqueue
    \/ \E v \in PacerRates : PacerPublish(v)
    \/ PacerRateChange
    \/ \E ok \in BOOLEAN : PacerTick(ok)
    \/ \E d \in PacerSteps : PacerAdvance(d)
    \/ PacerAbort

\* The runtime runs the pacer task when its watch channel has an unseen rate.
PacerFairness == WF_vars(PacerRateChange)

SpecPacer == PacerInit /\ [][PacerNext]_vars /\ PacerFairness

\* ------------------------------ SpecWin: the sending side of an endpoint
\* The endpoint of SpecSock with its three flush sites (send, update, flush)
\* and reference windows on both sides of what a u16 number of segments holds.
WinRefWnds == {1999, 4000, 65536000, 2000000000}

WinNext ==
    \/ \E w \in Wakers, buf \in Bufs : SockPollSend(w, buf)
    \/ \E w \in WinRefWnds : SockUpdate(w)
    \/ SockFlush
    \/ SockDrain
    \/ \E d \in SockSteps : SockAdvance(d)

SpecWin == SockInit /\ [][WinNext]_vars

\* ------------------------------- SpecWnd: the reference window (scream.rs)
\* The fields of ScreamCongestionControl that the reference-window code reads
\* and writes.  Bytes are bytes, times ms, and the f32 factors are fixed-point
\* numbers in thousandths (PerMille is 1.0), rounded down after each product.
PerMille == 1000
MIN_REF_WND == 3000
BETA_LOSS == 700
BETA_ECN == 800
REF_WND_OVERHEAD == 1500
BYTES_IN_FLIGHT_HEAD_ROOM == 2
POST_CONGESTION_DELAY_RTT == 100
MUL_INCREASE_FACTOR == 20
VIRTUAL_RTT == 25
IS_L4S == FALSE

Abs(x) == IF x >= 0 THEN x ELSE 0 - x
Scaled(x, f) == (x * f) \div PerMille

\* ScreamCongestionControl::new, the reference-window fields
WndNew(t) ==
    [ ref_wnd |-> 4 * MSS,
      last_ref_wnd_i_update_time |-> t,
      bytes_in_flight |-> 0,
      max_bytes_in_flight |-> 0,
      max_bytes_in_flight_prev |-> 0,
      s_rtt |-> 0,
      qdelay |-> 1000,
      qdelay_avg |-> 0,
      qdelay_target |-> QDELAY_TARGET_LO,
      last_congestion_detected_time |-> t,
      l4s_alpha |-> 100,
      target_bitrate |-> 1000000,
      is_l4s_active |-> FALSE,
      ref_wnd_i |-> 0,
      ref_wnd_ratio |-> 0,
      bytes_newly_acked |-> 0,
      bytes_newly_acked_ce |-> 0,
      packet_loss_occured |-> FALSE,
      panicked |-> FALSE ]

\* increase_window: post_congestion_scale_t
PostCongestionScale(c, t) ==
    Clamp(((t - c.last_congestion_detected_time) * PerMille)
              \div (POST_CONGESTION_DELAY_RTT * Max(VIRTUAL_RTT, c.s_rtt)),
          0, PerMille)

\* increase_window: ref_wnd_scale_factor_t
RefWndScaleFactor(c) == PerMille + (MUL_INCREASE_FACTOR * c.ref_wnd) \div MSS

\* increase_window: scl_t; a division by a ref_wnd_i of 0.0 is infinite (or
\* NaN) and f32::min(1.0, _) makes it 1.0
SclT(c) ==
    IF c.ref_wnd_i = 0 THEN PerMille
    ELSE Bind((Abs(c.ref_wnd - c.ref_wnd_i) * 4 * PerMille) \div c.ref_wnd_i,
              LAMBDA d : IF d >= PerMille THEN PerMille
                         ELSE Max(PerMille \div 10, Scaled(d, d)))

\* increase_window: tmp_t, the multiplicative increase
MulIncrease(c, t) ==
    IF RefWndScaleFactor(c) > PerMille
    THEN PerMille + Scaled(Scaled(RefWndScaleFactor(c) - PerMille,
                                  PostCongestionScale(c, t)), SclT(c))
    ELSE RefWndScaleFactor(c)

\* increase_window: increment_t
IncrementT(c, t) ==
    Bind(Min(PerMille, (c.s_rtt * PerMille) \div VIRTUAL_RTT), LAMBDA tmp_t :
    Bind(Scaled(Scaled(Scaled(c.bytes_newly_acked - c.bytes_newly_acked_ce,
                              c.ref_wnd_ratio), tmp_t), tmp_t), LAMBDA i1 :
    Bind(IF ~c.is_l4s_active THEN Scaled(i1, SclT(c)) ELSE i1, LAMBDA i2 :
    Bind(Scaled(i2, Max(PerMille \div 2, PerMille - c.ref_wnd_ratio)), LAMBDA i3 :
         Scaled(i3, MulIncrease(c, t))))))

\* increase_window: max_allowed_t
MaxAllowedT(c) ==
    MSS + Max(c.max_bytes_in_flight, c.max_bytes_in_flight_prev)
              * BYTES_IN_FLIGHT_HEAD_ROOM

\* The cap of spec 4.2.2: max(ref_wnd, 1.5 * max_bytes_in_flight_prev)
OverheadCap(c) == Max(c.ref_wnd, Scaled(c.max_bytes_in_flight_prev, REF_WND_OVERHEAD))

\* ScreamCongestionControl::increase_window
increase_window(c, t) ==
    IF c.ref_wnd + IncrementT(c, t) <= MaxAllowedT(c)
    THEN [c EXCEPT !.ref_wnd = c.ref_wnd + IncrementT(c, t)]
    ELSE c

\* decrease_window: the guard on the time since the last congestion
DecreaseAllowed(c, t) ==
    t - c.last_congestion_detected_time >= Min(VIRTUAL_RTT, c.s_rtt)

\* decrease_window: l4_alpha_lim_t, as `l4s_alpha < l4_alpha_lim_t`
L4sAlphaBelowLimit(c) ==
    c.s_rtt = 0 \/ (c.target_bitrate \div 1000) * c.s_rtt * c.l4s_alpha < 16 * 1000000

\* decrease_window: is_virtual_ce_t
IsVirtualCe(c, t) ==
    /\ DecreaseAllowed(c, t)
    /\ c.qdelay > c.qdelay_target \div 2
    /\ (~c.is_l4s_active \/ L4sAlphaBelowLimit(c))

\* decrease_window: l4s_alpha_v_t
L4sAlphaV(c, t) ==
    IF IsVirtualCe(c, t)
    THEN Clamp(((c.qdelay_avg - c.qdelay_target \div 2) * PerMille)
                   \div (c.qdelay_target \div 2), 0, PerMille)
    ELSE 0

\* decrease_window: is_loss_t || is_ce_t || is_virtual_ce_t
Triggered(c, t, is_loss, is_ce) ==
    (DecreaseAllowed(c, t) /\ (is_loss \/ is_ce)) \/ IsVirtualCe(c, t)

\* decrease_window: the reductions of ref_wnd, one after the other
ReducedRefWnd(c, t, is_loss, is_ce) ==
    Bind(IF DecreaseAllowed(c, t) /\ is_loss THEN Scaled(c.ref_wnd, BETA_LOSS)
         ELSE c.ref_wnd, LAMBDA w1 :
    Bind(IF DecreaseAllowed(c, t) /\ is_ce /\ ~IS_L4S THEN Scaled(w1, BETA_ECN)
         ELSE w1, LAMBDA w2 :
         IF IsVirtualCe(c, t)
         THEN Scaled(w2, PerMille - L4sAlphaV(c, t) \div 2) ELSE w2))

\* ScreamCongestionControl::decrease_window
decrease_window(c, t, is_loss, is_ce) ==
    [c EXCEPT
       !.last_ref_wnd_i_update_time =
           IF Triggered(c, t, is_loss, is_ce) /\ t - @ > 10 * c.s_rtt THEN t ELSE @,
       !.ref_wnd_i =
           IF /\ Triggered(c, t, is_loss, is_ce)
              /\ t - c.last_ref_wnd_i_update_time > 10 * c.s_rtt
           THEN c.ref_wnd ELSE @,
       !.ref_wnd = Max(MIN_REF_WND, ReducedRefWnd(c, t, is_loss, is_ce)),
       !.last_congestion_detected_time =
           IF Triggered(c, t, is_loss, is_ce) THEN t ELSE @]

\* ScreamCongestionControl::update_ref_window: the increase, the decrease,
\* and then todo!(), which panics
update_ref_window(c, t, is_loss, is_ce) ==
    [decrease_window(increase_window(c, t), t, is_loss, is_ce) EXCEPT
       !.panicked = TRUE]

\* The values the estimators and counters hold when the window code runs:
\* they are written by the ack and feedback handlers.
WndRefWnds == {4 * MSS, 20000}
WndInflections == {0, 20000}
WndSRtts == {0, 100}
WndQdelays == {0, 60}
WndAcked == {0, 4000}
WndMaxInFlight == {0, 4000}
WndSteps == {10, 50, 2000}

\* hist.last_decrease is history: when ref_wnd was last lowered, -1 for never
WndEvent(op, is_loss, is_ce) ==
    [op |-> op, is_loss |-> is_loss, is_ce |-> is_ce, before |-> scream, at |-> now,
     since |-> hist.last_decrease]

Lowered(c) == IF c.ref_wnd < scream.ref_wnd THEN now ELSE hist.last_decrease

WndInit ==
    /\ tasks = NoTasks
    /\ now = 0
    /\ eps = IdleEndpoints
    /\ debug_build = FALSE
    /\ ops = 0
    /\ hist = [last_decrease |-> -1]
    /\ \E w \in WndRefWnds, i \in WndInflections, r \in WndSRtts, q \in WndQdelays,
          a \in WndAcked, m \in WndMaxInFlight, p \in WndMaxInFlight :
         scream = [WndNew(0) EXCEPT
                     !.ref_wnd = w, !.ref_wnd_i = i, !.s_rtt = r,
                     !.ref_wnd_ratio = IF a = 0 THEN 0 ELSE Min(PerMille, (MSS * PerMille) \div w),
                     !.qdelay = q, !.qdelay_avg = q,
                     !.bytes_newly_acked = a, !.bytes_in_flight = m,
                     !.max_bytes_in_flight = m, !.max_bytes_in_flight_prev = p]
    /\ last = [op |-> "none", is_loss |-> FALSE, is_ce |-> FALSE,
               before |-> WndNew(0), at |-> 0, since |-> -1]

WndGuard == ~scream.panicked /\ ops < MaxWndOps

WndIncrease ==
    /\ WndGuard
    /\ scream' = increase_window(scream, now)
    /\ last' = WndEvent("increase", FALSE, FALSE)
    /\ ops' = ops + 1
    /\ UNCHANGED <<now, debug_build, eps, hist, tasks>>

WndDecrease(is_loss, is_ce) ==
    /\ WndGuard
    /\ scream' = decrease_window(scream, now, is_loss, is_ce)
    /\ last' = WndEvent("decrease", is_loss, is_ce)
    /\ hist' = [last_decrease |-> Lowered(scream')]
    /\ ops' = ops + 1
    /\ UNCHANGED <<now, debug_build, eps, tasks>>

WndUpdateRefWindow(is_loss, is_ce) ==
    /\ WndGuard
    /\ scream' = update_ref_window(scream, now, is_loss, is_ce)
    /\ last' = WndEvent("update_ref_window", is_loss, is_ce)
    /\ hist' = [last_decrease |-> Lowered(scream')]
    /\ ops' = ops + 1
    /\ UNCHANGED <<now, debug_build, eps, tasks>>

WndAdvance(d) ==
    /\ WndGuard
    /\ now' = now + d
    /\ last' = WndEvent("advance", FALSE, FALSE)
    /\ ops' = ops + 1
    /\ UNCHANGED <<scream, debug_build, eps, hist, tasks>>

WndNext ==
    \/ WndIncrease
    \/ \E is_loss \in BOOLEAN, is_ce \in BOOLEAN : WndDecrease(is_loss, is_ce)
    \/ \E is_loss \in BOOLEAN, is_ce \in BOOLEAN : WndUpdateRefWindow(is_loss, is_ce)
    \/ \E d \in WndSteps : WndAdvance(d)

SpecWnd == WndInit /\ [][WndNext]_vars

\* ------------------ SpecPace: the pacer task beside update() and the drop
\* The pacer task with the endpoint that owns its two senders: update() runs
\* every `cadence` ms and publishes a pacing rate on each call, and the drop
\* of the endpoint drops the PacketPacer (the only sender of the datagram
\* channel) and the sender of the rate channel.  now stays 0: deadline and
\* update_in are the times left until the next tick and the next update().
PaceCadences == {4, 16}

\* pacing_rate_rx.changed() is Ok(()): a value not yet seen
changed_ok(p) == p.pacing_rate_rx.changed

\* A select! that takes the branch on Err as well
changed_any(p) == p.pacing_rate_rx.changed \/ ~p.rate_open

\* `Ok(()) = pacing_rate_rx.changed()`: the branch is taken on Ok(()); on Err
\* (the sender is gone and nothing is unseen) select! disables it and waits
\* for the other branch
rate_branch_ready(p) == changed_ok(p)

PaceInit ==
    /\ now = 0
    /\ scream = ScreamNew(0)
    /\ debug_build = FALSE
    /\ ops = 0
    /\ eps = IdleEndpoints
    /\ last = PacerRet("none", "Ok")
    /\ \E c \in PaceCadences :
         tasks = [pacer |-> PacketPacerNew(WatchChannel(1000000), 0),
                  cadence |-> c, update_in |-> c]
    /\ hist = [written |-> 0, queued |-> << >>, tried |-> << >>, left |-> 0]

\* The ARQ engine of the endpoint writes its next datagram to the PacerOutput.
PaceEnqueue ==
    /\ tasks.pacer.handles
    /\ hist.written < MaxPkts
    /\ \E r \in {PacerOutputWrite(tasks.pacer, hist.written + 1)} :
       /\ tasks' = [tasks EXCEPT !.pacer = r.p]
       /\ last' = [PacerRet("write", r.res) EXCEPT !.d = hist.written + 1]
       /\ hist' = [hist EXCEPT !.written = @ + 1,
                               !.queued = IF Len(r.p.packet_q) > Len(tasks.pacer.packet_q)
                                          THEN Append(@, hist.written + 1) ELSE @]
    /\ UNCHANGED <<scream, now, debug_build, ops, eps>>

\* update() is due: it publishes the pacing rate, whatever it is.
PaceUpdate(v) ==
    /\ tasks.pacer.handles /\ tasks.pacer.rate_open
    /\ tasks.update_in = 0
    /\ tasks' = [tasks EXCEPT !.pacer.pacing_rate_rx = WatchSend(@, v),
                              !.update_in = tasks.cadence]
    /\ last' = PacerRet("publish", "Ok")
    /\ UNCHANGED <<scream, now, debug_build, ops, eps, hist>>

\* select!, biased: the rate-change branch
PaceRateChange ==
    /\ tasks.pacer.alive /\ rate_branch_ready(tasks.pacer)
    /\ tasks' = [tasks EXCEPT !.pacer = rate_changed(tasks.pacer, now)]
    /\ last' = PacerRet("rate", IF changed_ok(tasks.pacer) THEN "Ok" ELSE "Err")
    /\ UNCHANGED <<scream, now, debug_build, ops, eps, hist>>

\* select!, biased: the timer branch, once the deadline of the timer is reached
PaceTick(ok) ==
    /\ tasks.pacer.alive /\ ~rate_branch_ready(tasks.pacer)
    /\ now >= tasks.pacer.deadline
    /\ \E r \in {timer_tick(tasks.pacer, ok)} :
       /\ tasks' = [tasks EXCEPT !.pacer = r.p]
       /\ last' = [PacerRet("tick", IF r.tried # << >> /\ ~ok THEN "Err" ELSE "Ok")
                     EXCEPT !.tried = r.tried, !.sent = r.sent, !.ok = ok]
       /\ hist' = [hist EXCEPT !.tried = @ \o r.tried]
    /\ UNCHANGED <<scream, now, debug_build, ops, eps>>

\* d ms pass: nothing that is due is passed over.
PaceAdvance(d) ==
    /\ tasks.pacer.alive => tasks.pacer.deadline >= d /\ ~rate_branch_ready(tasks.pacer)
    /\ tasks.pacer.handles /\ tasks.pacer.rate_open => tasks.update_in >= d
    /\ tasks.pacer.alive \/ (tasks.pacer.handles /\ tasks.pacer.rate_open)
    /\ tasks' = [tasks EXCEPT
                   !.pacer.deadline = IF tasks.pacer.alive THEN @ - d ELSE @,
                   !.update_in = IF tasks.pacer.handles /\ tasks.pacer.rate_open
                                 THEN @ - d ELSE @]
    /\ last' = PacerRet("advance", "Ok")
    /\ UNCHANGED <<scream, now, debug_build, ops, eps, hist>>

\* The endpoint is dropped, and with it the PacketPacer and the sender of the
\* rate channel.  Whether a value not yet seen is still reported by changed()
\* depends on the version of the watch channel.
PaceDrop ==
    /\ tasks.pacer.handles
    /\ \E seen \in {tasks.pacer.pacing_rate_rx.changed, FALSE} :
         tasks' = [tasks EXCEPT !.pacer.handles = FALSE, !.pacer.rate_open = FALSE,
                                !.pacer.pacing_rate_rx.changed = seen]
    /\ last' = PacerRet("drop", "Ok")
    /\ hist' = [hist EXCEPT !.left = Len(tasks.pacer.packet_q)]
    /\ UNCHANGED <<scream, now, debug_build, ops, eps>>

\* The sender of the rate channel alone is dropped.
PaceRateClose ==
    /\ tasks.pacer.handles /\ tasks.pacer.rate_open
    /\ \E seen \in {tasks.pacer.pacing_rate_rx.changed, FALSE} :
         tasks' = [tasks EXCEPT !.pacer.rate_open = FALSE,
                                !.pacer.pacing_rate_rx.changed = seen]
    /\ last' = PacerRet("rate_close", "Ok")
    /\ UNCHANGED <<scream, now, debug_build, ops, eps, hist>>

PaceNext ==
    \/ PaceEnqueue
    \/ \E v \in PacerRates : PaceUpdate(v)
    \/ PaceRateChange
    \/ \E ok \in BOOLEAN : PaceTick(ok)
    \/ \E d \in PacerSteps : PaceAdvance(d)
    \/ PaceDrop
    \/ PaceRateClose

\* The runtime runs the pacer task whenever a branch of its select! is ready,
\* time passes, and update() is called when it is due.
PaceFairness ==
    /\ WF_vars(PaceRateChange)
    /\ WF_vars(\E ok \in BOOLEAN : PaceTick(ok))
    /\ WF_vars(\E d \in PacerSteps : PaceAdvance(d))
    /\ WF_vars(\E v \in PacerRates : PaceUpdate(v))

SpecPace == PaceInit /\ [][PaceNext]_vars /\ PaceFairness

\* ------------------------------------------------------------------ claims

\* C1: in every reachable controller state, bytes_in_flight equals the sum of
\* the sizes of the in-flight records (a record acked by ARQ is removed from
\* the map by on_ack, so every record in the map is one not acked by ARQ).
C1_BytesInFlightIsSumOfRecords ==
    ~scream.panicked /\ scream.bytes_in_flight = InFlightSum(scream)

\* C2: bytes_in_flight never underflows or wraps: on_packet_sent adds the size
\* without wrapping, and an ack or a loss deducts the record's size and leaves
\* 0 when the deduction is larger than the current value.
C2_BytesInFlightNeverWraps ==
    /\ ~scream.panicked
    /\ last.op = "sent" => scream.bytes_in_flight = last.before + last.size
    /\ last.op \in {"ack", "loss"} =>
           scream.bytes_in_flight = SatSub(last.before, last.held)

\* C3: a record leaves the in-flight map of the controller only by a feedback
\* ack for its sequence number, by on_packet_loss for it, or on close.
C3_ResolvedByFeedbackLossOrClose ==
    [][ \A sn \in SeqNums :
          (/\ eps[1].scream.packets_in_flight[sn].present
           /\ ~eps'[1].scream.packets_in_flight[sn].present)
          => \/ \E i \in 1..Len(eps'[1].trace) :
                   eps'[1].trace[i] \in {<<"feedback", sn>>, <<"loss", sn>>}
             \/ last'.op = "close" ]_vars

\* Nothing is left to deliver: no datagram is queued and neither ARQ engine
\* holds a segment.
NetQuiet ==
    /\ \A e \in Endpoints : eps[e].out = << >>
    /\ wait_snd(eps[1].kcp) = 0
    /\ eps[2].kcp.rcv_buf = {} /\ eps[2].kcp.rcv_queue = << >>

IsPrefix(p, q) == Len(p) <= Len(q) /\ SubSeq(q, 1, Len(p)) = p

\* C4: over the lossless substrate the blocks recv has returned on endpoint 2
\* are always the first blocks send accepted on endpoint 1, in order, and
\* all of them once nothing is left to deliver.
C4_RecvIsWhatSendAccepted ==
    /\ IsPrefix(hist.rcvd, hist.sent)
    /\ NetQuiet => hist.rcvd = hist.sent

C4_Witness ==
    /\ hist.dropped
    /\ hist.sent = <<"a", "b">>
    /\ hist.rcvd = hist.sent

\* C5: in the echo test main eventually gets from try_recv exactly the
\* message it sent, whatever the interleaving of the tasks.
C5_EchoCompletes == <>(tasks.pc["main"] = "done" /\ tasks.got = Message)

C5_Witness ==
    /\ tasks.pc["main"] = "done" /\ tasks.got = Message
    /\ eps[1].kcp.conv = Conv
    /\ \E e \in Endpoints : Len(tasks.mutex[e]) > 1

\* C6: input classifies a datagram by its first four bytes: one that starts
\* with the feedback magic goes, without the magic, to on_feedback and not to
\* ARQ.input; any other goes to ARQ.input and not to on_feedback.
C6_InputClassifiesByMagic ==
    last.op = "input" =>
        LET d == last.d[1] IN
        IF d.head = ToLE(SCREAM_FEEDBACK_HEADER, 4)
        THEN last.arq_in = << >> /\ last.fb_in = <<SubSeq(d.bytes, 5, Len(d.bytes))>>
        ELSE last.arq_in = <<d>> /\ last.fb_in = << >>

\* C7: a feedback datagram that update() emits is the bytes 42 46 4D 5C and
\* then a non-empty whole number of 12-byte records, it is not ARQ framing and
\* it is what the pacer channel got (unless the channel was full); and update()
\* emits none when no push was reported since the last feedback datagram.
C7_FeedbackDatagramFraming ==
    last.op = "update" =>
        /\ last.pushed = << >> => last.fb_out = << >>
        /\ last.fb_out # << >> =>
              LET p == last.fb_out[1] IN
              /\ ~p.arq
              /\ Len(p.bytes) > 4
              /\ SubSeq(p.bytes, 1, 4) = <<66, 70, 77, 92>>
              /\ p.head = SubSeq(p.bytes, 1, 4)
              /\ (Len(p.bytes) - 4) % 12 = 0
              /\ \/ Len(eps[1].out) = PacerCap
                 \/ eps[1].out[Len(eps[1].out)] = p

C7_Witness ==
    /\ last.op = "update" /\ last.fb_out # << >>
    /\ Len(last.pushed) = 2
    /\ eps[1].out[Len(eps[1].out)] = last.fb_out[1]

\* C8: create_feedback_packet returns a packet exactly when sequence numbers
\* were passed to on_packet_received since the last packet; on_feedback on the
\* bytes it returned acks those sequence numbers, in that order, each as often
\* as it was passed, and no other; and right after it the pending list is
\* empty and a second create_feedback_packet returns none.
C8_FeedbackRoundTrip ==
    /\ last.op = "create" =>
          /\ last.some = (last.given # << >>)
          /\ scream.pending_feedback = << >>
          /\ ~create_feedback_packet(scream, now).some
          /\ last.some => on_feedback(scream, last.data, now).acked = last.given
    /\ last.op = "feedback" => last.acked = hist.wire_given

C8_Witness ==
    /\ last.op = "feedback"
    /\ last.acked = <<1, 0>>
    /\ scream.s_rtt = 7

\* C9: once the endpoint is closed it stays closed, and a poll_send on it
\* returns BrokenPipe and changes nothing of the endpoint.
C9_SendAfterCloseIsBrokenPipe ==
    [][ eps[1].closed =>
          /\ eps'[1].closed
          /\ last'.op = "poll_send" =>
                /\ last'.res = "BrokenPipe"
                /\ Called(eps'[1]) = Called(eps[1]) ]_vars

C9_Witness ==
    /\ last.op = "poll_send" /\ last.res = "BrokenPipe"
    /\ eps[1].closed /\ eps[1].kcp.snd_queue # << >>

\* The back-pressure condition of the claim, on the endpoint before the send
WindowFullOrNoConv(ep) ==
    \/ Len(ep.kcp.snd_buf) + Len(ep.kcp.snd_queue) >= ep.kcp.snd_wnd
    \/ Len(ep.kcp.snd_buf) + Len(ep.kcp.snd_queue) >= ep.kcp.rmt_wnd
    \/ ep.kcp.input_conv

SendPendingNothingQueued ==
    /\ last'.res = "Pending"
    /\ eps'[1].pending_sender = last'.w
    /\ eps'[1].kcp = eps[1].kcp
    /\ eps'[1].scream = eps[1].scream
    /\ eps'[1].out = eps[1].out

\* C10 as stated: a send on an open endpoint whose wait-send count has reached
\* a window, or whose conversation id is not allocated, is Pending, stores the
\* waker and queues nothing.
C10_BackPressureAlways ==
    [][ (last'.op = "poll_send" /\ ~eps[1].closed /\ WindowFullOrNoConv(eps[1]))
          => SendPendingNothingQueued ]_vars

\* C10, amended: the same for every send after the first accepted one
\* (sent_first); the first send is accepted whatever the windows and the
\* conversation id.
C10_BackPressureAfterFirstSend ==
    [][ (last'.op = "poll_send" /\ ~eps[1].closed /\ eps[1].sent_first
           /\ WindowFullOrNoConv(eps[1]))
          => SendPendingNothingQueued ]_vars

C10_Witness ==
    /\ last.op = "poll_send" /\ last.res = "Pending"
    /\ eps[1].pending_sender = last.w
    /\ eps[1].kcp.input_conv

\* C11: conversation-id allocation on an open endpoint that waits for its
\* conversation id.  The first send is accepted, cut to one MSS, and reports
\* the length it queued; sent_first is never reset, so no second send is
\* accepted while the endpoint waits: each is Pending and queues nothing.  The
\* wait ends only by an input whose datagram carries a non-zero conversation
\* id, which the engine takes; after that the id is fixed and every ARQ
\* datagram the endpoint queues for the pacer carries it.
C11_ConvAllocation ==
    [][ /\ eps[1].sent_first => eps'[1].sent_first
        /\ (last'.op = "poll_send" /\ ~eps[1].closed /\ waiting_conv(eps[1].kcp)) =>
              IF eps[1].sent_first
              THEN /\ last'.res = "Pending"
                   /\ eps'[1].kcp = eps[1].kcp /\ eps'[1].out = eps[1].out
              ELSE /\ last'.res = "Ok" /\ eps'[1].sent_first
                   /\ last'.n = Min(last'.len, 1)
                   /\ wait_snd(eps'[1].kcp) = wait_snd(eps[1].kcp) + last'.n
        /\ (waiting_conv(eps[1].kcp) /\ ~waiting_conv(eps'[1].kcp)) =>
              /\ last'.op = "input"
              /\ last'.d[1].conv # 0
              /\ eps'[1].kcp.conv = last'.d[1].conv
        /\ ~waiting_conv(eps[1].kcp) =>
              /\ eps'[1].kcp.conv = eps[1].kcp.conv
              /\ ~waiting_conv(eps'[1].kcp)
              /\ \A i \in 1..Len(eps'[1].out) :
                    (i > Len(eps[1].out) /\ eps'[1].out[i].arq)
                      => eps'[1].out[i].conv = eps[1].kcp.conv ]_vars

\* The first datagram queued carries conv 0 and one block; the send accepted
\* after the conversation id arrived carries that id.
C11_Witness ==
    /\ last.op = "poll_send" /\ last.res = "Ok"
    /\ Len(eps[1].out) = 2
    /\ eps[1].out[1].conv = 0 /\ Len(eps[1].out[1].segs) = 1
    /\ eps[1].out[2].conv = Conv /\ eps[1].out[2].segs # << >>
    /\ eps[1].kcp.conv = Conv

\* The endpoint has room for a send: the wait-send count is below both
\* windows and the conversation id is allocated.
SendCapacity(ep) ==
    /\ wait_snd(ep.kcp) < ep.kcp.snd_wnd
    /\ wait_snd(ep.kcp) < ep.kcp.rmt_wnd
    /\ ~waiting_conv(ep.kcp)

\* C12: no lost wake-up for senders.  An update() or input() that leaves the
\* endpoint with room for a send wakes the stored sender waker and clears it,
\* so a waker is never left stored while there is room; and a stored waker
\* that leaves pending_sender (woken by update or input, replaced by the poll
\* of another task, or taken by close) is woken in that same call.
C12_SenderWoken ==
    [][ /\ (/\ last'.op \in {"update", "input"}
             /\ eps[1].pending_sender # NoWaker
             /\ SendCapacity(eps'[1]))
              => /\ eps[1].pending_sender \in last'.woke
                 /\ eps'[1].pending_sender = NoWaker
        /\ (/\ eps[1].pending_sender # NoWaker
             /\ eps'[1].pending_sender # eps[1].pending_sender)
              => eps[1].pending_sender \in last'.woke
        /\ eps'[1].pending_sender # NoWaker => ~SendCapacity(eps'[1]) ]_vars

\* An input whose ack makes room wakes the sender w1 (the receiver w2 stays
\* stored: nothing arrived for it).
C12_Witness ==
    /\ last.op = "input" /\ last.woke = {"w1"}
    /\ eps[1].pending_sender = NoWaker
    /\ eps[1].pending_receiver = "w2"
    /\ SendCapacity(eps[1])

\* A message that recv may return is in the receive queue
MessageAvailable(ep) ==
    \E i \in 1..Len(ep.kcp.rcv_queue) :
        ep.allow_recv_empty_packet \/ ep.kcp.rcv_queue[i] # EmptyMsg

\* C13: no lost wake-up for receivers.  A stored receiver waker is woken and
\* cleared by the input() that leaves a message recv may return in the receive
\* queue, and by close().
C13_ReceiverWoken ==
    [][ (/\ eps[1].pending_receiver # NoWaker
         /\ \/ last'.op = "close"
            \/ last'.op = "input" /\ ~eps[1].closed /\ MessageAvailable(eps'[1]))
          => /\ eps[1].pending_receiver \in last'.woke
             /\ eps'[1].pending_receiver = NoWaker ]_vars

\* The life-cycle state of an endpoint
LifeCycle(ep) ==
    IF ep.closed THEN (IF can_close(ep) THEN "closed" ELSE "closing")
    ELSE IF waiting_conv(ep.kcp) THEN "waiting-conv" ELSE "established"

\* C14: the life cycle of endpoint 1.  Its state changes only from
\* waiting-conv to established, by an input that carries a non-zero
\* conversation id; from an open state to closing (to closed, when nothing
\* waits to be sent), by close(), which wakes and clears both stored wakers;
\* and from closing to closed, when the wait-send count reaches 0.  With
\* update() driven and the peer acknowledging, a closed endpoint eventually
\* can close.
C14_LifeCycle ==
    /\ [][ LET from == LifeCycle(eps[1])
               to == LifeCycle(eps'[1])
           IN from # to =>
                \/ /\ from = "waiting-conv" /\ to = "established"
                   /\ last'.op = "input" /\ last'.d[1].conv # 0
                \/ /\ from \in {"waiting-conv", "established"}
                   /\ to = IF wait_snd(eps[1].kcp) = 0 THEN "closed" ELSE "closing"
                   /\ last'.op = "close"
                   /\ last'.woke = {eps[1].pending_sender, eps[1].pending_receiver}
                                      \ {NoWaker}
                   /\ eps'[1].pending_sender = NoWaker
                   /\ eps'[1].pending_receiver = NoWaker
                \/ /\ from = "closing" /\ to = "closed"
                   /\ wait_snd(eps'[1].kcp) = 0 ]_vars
    /\ (eps[1].closed ~> (eps[1].closed /\ can_close(eps[1])))

\* Endpoint 1 got its conversation id, was closed with segments waiting, and
\* the ack of the last of them let it close.
C14_Witness ==
    /\ LifeCycle(eps[1]) = "closed"
    /\ last.op = "input"
    /\ eps[1].kcp.conv = Conv
    /\ eps[1].kcp.snd_nxt = MaxSn + 1
    /\ \E i \in 1..Len(eps[1].trace) : eps[1].trace[i][1] = "ack"

\* C15: the pacer channel never holds more than its capacity (PacerCap stands
\* for the 256 of the code); a write on a full channel returns Ok and leaves
\* the queued datagrams as they are, the datagram written being dropped; a
\* write after the pacer is gone returns BrokenPipe; any other write queues
\* the datagram at the end and returns Ok.
C15_EnqueueBoundedNonBlocking ==
    /\ [](Len(tasks.packet_q) <= PacerCap)
    /\ [][ last'.op = "write" =>
             IF ~tasks.alive
             THEN last'.res = "BrokenPipe" /\ tasks' = tasks
             ELSE /\ last'.res = "Ok"
                  /\ tasks'.packet_q =
                        IF Len(tasks.packet_q) = PacerCap THEN tasks.packet_q
                        ELSE Append(tasks.packet_q, last'.d) ]_vars

\* A write found the channel full and its datagram was dropped
C15_Witness ==
    /\ last.op = "write" /\ last.res = "Ok"
    /\ Len(tasks.packet_q) = PacerCap
    /\ tasks.packet_q[PacerCap] # last.d

\* C16: a timer tick of the pacer hands at most one datagram to the socket,
\* the oldest queued, so that the datagrams handed over are, in order, the
\* first of those the channel took; a tick on an empty queue hands over
\* nothing; and after a send error the pacer still runs and the datagrams
\* behind the failed one are queued as before.
C16_OnePerTickInOrder ==
    /\ [](IsPrefix(hist.tried, hist.queued))
    /\ [][ last'.op = "tick" =>
             /\ Len(last'.tried) <= 1
             /\ last'.sent = IF last'.ok THEN last'.tried ELSE << >>
             /\ tasks'.alive
             /\ IF tasks.packet_q = << >>
                THEN last'.tried = << >> /\ tasks'.packet_q = << >>
                ELSE /\ last'.tried = <<Head(tasks.packet_q)>>
                     /\ tasks'.packet_q = Tail(tasks.packet_q) ]_vars

\* The send of the second datagram failed; the third is still queued
C16_Witness ==
    /\ last.op = "tick" /\ last.res = "Err"
    /\ hist.tried = <<1, 2>>
    /\ tasks.packet_q = <<3>>
    /\ tasks.alive

\* C17: once the pacer has handled a rate change, its timer is set to the
\* interval computed from the rate it adopted: the change leaves the next
\* tick one such interval away, and every tick leaves the next one such
\* interval after the one it served.
C17_TickPeriodFollowsRate ==
    [][ /\ last'.op = "rate" =>
              tasks'.deadline = now + calculate_interval(tasks'.pacing_rate)
        /\ (last'.op = "tick" /\ hist.adopted > 0) =>
              tasks'.deadline - tasks.deadline = calculate_interval(tasks.pacing_rate) ]_vars

\* The pacing rate last published (the initial value of the channel when
\* none was)
LastPublished ==
    IF hist.published = << >> THEN 1000000 ELSE hist.published[Len(hist.published)]

\* C18: whenever the pacer handles a rate change, the rate it adopts is the
\* one published last at that moment, whatever was published in between; and
\* once no more rates are published, the rate of a running pacer is
\* eventually, and from then on, the last published one.
C18_LatestRateDelivered ==
    /\ [][ last'.op = "rate" => tasks'.pacing_rate = LastPublished ]_vars
    /\ <>[](~tasks.alive \/ tasks.pacing_rate = LastPublished)

\* Two rates were published before the pacer ran: it adopted the second and
\* never the first
C18_Witness ==
    /\ last.op = "rate"
    /\ hist.published = <<500000, 2000000>>
    /\ hist.rates = <<2000000>>
    /\ tasks.pacing_rate = 2000000

\* The target bitrate is within its limits
TargetBitrateInRange(c) ==
    MinBitrate <= c.target_bitrate /\ c.target_bitrate <= MaxBitrate

\* clamp(ref_wnd * 8 / sRTT, 500 kbps, 10 Mbps), 500 kbps when sRTT = 0
\* (ref_wnd in bytes, s_rtt in ms)
TargetBitrateOfWindow(c) ==
    IF c.s_rtt = 0 THEN MinBitrate
    ELSE Clamp((c.ref_wnd * 8 * 1000) \div c.s_rtt, MinBitrate, MaxBitrate)

\* C19: in every reachable controller state the target bitrate is within
\* [500 kbps, 10 Mbps] and equals clamp(ref_wnd * 8 / sRTT, 500 kbps, 10 Mbps),
\* 500 kbps when sRTT = 0.
C19_TargetBitrateOfRefWnd ==
    /\ TargetBitrateInRange(scream)
    /\ scream.target_bitrate = TargetBitrateOfWindow(scream)

\* C20: in every reachable controller state the pacing rate is 1.25 times
\* the target bitrate (pacing_rate * 4 = target_bitrate * 5), also after ack
\* and loss events have changed the target bitrate.
C20_PacingIsTargetTimesFiveQuarters ==
    scream.pacing_rate * 4 = scream.target_bitrate * 5


C22_SndWndIsRefWndInSegments ==
    [][last'.op = "update" /\ ops' = ops + 1 =>
         /\ eps'[1].kcp.snd_wnd = Max(2, eps'[1].scream.ref_wnd \div MSS)
         /\ eps'[1].kcp.snd_wnd >= 2
         /\ eps'[1].kcp.rcv_wnd = eps[1].kcp.rcv_wnd]_vars

\* C22, amended: after every update() the ARQ send window is
\* min(65535, max(2, floor(ref_wnd / MSS))): the conversion to 16 bits
\* saturates and never wraps, the window is never below 2 segments, and the
\* receive window is the one before the call.
C22_SndWndSaturates ==
    [][last'.op = "update" /\ ops' = ops + 1 =>
         /\ eps'[1].kcp.snd_wnd = Min(65535, Max(2, eps'[1].scream.ref_wnd \div MSS))
         /\ eps'[1].kcp.snd_wnd >= 2
         /\ eps'[1].kcp.rcv_wnd = eps[1].kcp.rcv_wnd]_vars

C22_Witness ==
    /\ last.op = "update"
    /\ eps[1].scream.ref_wnd \div MSS > 65535
    /\ eps[1].kcp.snd_wnd = 65535


\* The sequence numbers of the events of one kind in a trace
TraceSns(trace, kind) ==
    Bind(SelectSeq(trace, LAMBDA e : e[1] = kind),
         LAMBDA es : [i \in 1..Len(es) |-> es[i][2]])

\* C23: whichever of send(), update() and flush() flushes, on_packet_sent is
\* called exactly once for each sequence number transmitted for the first
\* time, in order, and for no other: a retransmitted sequence number gets no
\* new in-flight record, and bytes_in_flight grows by no more than the sizes
\* of the first transmissions.
C23_SentOncePerFirstTransmission ==
    [][last'.op \in {"poll_send", "update", "flush"} /\ ops' = ops + 1 =>
         /\ TraceSns(eps'[1].trace, "sent") =
                [i \in 1..(eps'[1].kcp.snd_nxt - eps[1].kcp.snd_nxt) |->
                   eps[1].kcp.snd_nxt + i - 1]
         /\ \A sn \in SeqNums :
               /\ eps'[1].scream.packets_in_flight[sn].present
               /\ eps'[1].scream.packets_in_flight[sn] # eps[1].scream.packets_in_flight[sn]
               => sn >= eps[1].kcp.snd_nxt /\ sn < eps'[1].kcp.snd_nxt
         /\ eps'[1].scream.bytes_in_flight <=
                eps[1].scream.bytes_in_flight
                  + SegWireSize * (eps'[1].kcp.snd_nxt - eps[1].kcp.snd_nxt)]_vars

C23_Witness ==
    /\ last.op \in {"poll_send", "update", "flush"}
    /\ \E i, j \in 1..Len(eps[1].trace) :
         /\ eps[1].trace[i] = <<"loss", 0>>
         /\ eps[1].trace[j] = <<"sent", 1>>
    /\ ~eps[1].scream.packets_in_flight[0].present
    /\ eps[1].scream.packets_in_flight[1].present


\* C24: an ack or a loss declaration for a sequence number whose last
\* controller event was already an ack or a loss declaration leaves
\* bytes_in_flight as it was: a packet's size is deducted at most once.
C24_DeductedAtMostOnce ==
    /\ last.op \in {"ack", "loss"}
    /\ last.was \in {"acked", "lost"}
    => /\ scream.bytes_in_flight = last.before
       /\ ~scream.packets_in_flight[last.sn].present

C24_Witness ==
    /\ last.op = "ack"
    /\ last.was = "lost"
    /\ last.before > 0
    /\ scream.bytes_in_flight = last.before


MinFactor(c, is_loss, is_ce) ==
    Bind(IF c.qdelay_avg > c.qdelay_target \div 2
         THEN PerMille - Clamp(((c.qdelay_avg - c.qdelay_target \div 2) * PerMille)
                                   \div (c.qdelay_target \div 2), 0, PerMille) \div 2
         ELSE PerMille, LAMBDA q :
    Bind(IF is_loss THEN Min(q, BETA_LOSS) ELSE q, LAMBDA l :
         IF is_ce THEN Min(l, BETA_ECN) ELSE l))

C27_RolloverCompletes ==
    last.op = "update_ref_window" =>
      /\ ~scream.panicked
      /\ scream.ref_wnd =
            decrease_window(increase_window(last.before, last.at), last.at,
                            last.is_loss, last.is_ce).ref_wnd
      /\ scream.max_bytes_in_flight_prev = last.before.max_bytes_in_flight
      /\ scream.max_bytes_in_flight = last.before.bytes_in_flight
      /\ scream.bytes_newly_acked = 0
      /\ scream.bytes_newly_acked_ce = 0
      /\ ~scream.packet_loss_occured


\* C28: after an ack that took an RTT sample, base_rtt is no greater than
\* that sample; and when the ack ended a 10-second window, the window
\* minimum starts again from the sentinel.
C28_BaseRttBelowWindowSamples ==
    last.op = "ack" /\ last.elapsed > 0 /\ ~scream.panicked =>
      /\ scream.base_rtt <= last.elapsed
      /\ scream.base_rtt_update_time # last.window_start
         => scream.min_rtt_in_window = Min(BASE_RTT_WINDOW, last.elapsed)


InSeq(x, q) == \E i \in 1..Len(q) : q[i] = x

\* C29: every datagram accepted into the pacer queue is eventually handed to
\* the socket, for every interleaving of ticks and rate publications,
\* whatever the cadence of update().
C29_PacerProgress ==
    \A d \in 1..MaxPkts : InSeq(d, hist.queued) ~> InSeq(d, hist.tried)


\* C30: the pacer task ends only when every sender of the datagram channel
\* is gone and the channel is empty, so while a sender exists (the rate
\* channel closed or not) it runs; it hands over one datagram per tick, in
\* the order they were accepted; it takes the rate branch only for a rate it
\* has not seen, never for a closed rate channel; and once the senders are
\* gone it hands over everything still queued and ends.
C30_PacerShutdown ==
    /\ [][/\ tasks.pacer.alive /\ ~tasks'.pacer.alive
              => /\ ~tasks.pacer.handles
                 /\ tasks.pacer.packet_q = << >>
                 /\ hist.tried = hist.queued
          /\ Len(hist'.tried) <= Len(hist.tried) + 1
          /\ last'.op = "rate" => tasks.pacer.pacing_rate_rx.changed]_vars
    /\ [](/\ IsPrefix(hist.tried, hist.queued)
          /\ tasks.pacer.handles => tasks.pacer.alive)
    /\ (~tasks.pacer.handles ~> (~tasks.pacer.alive /\ hist.tried = hist.queued))

C30_Witness ==
    /\ ~tasks.pacer.handles
    /\ ~tasks.pacer.alive
    /\ hist.left = 2
    /\ hist.tried = <<1, 2>>

=============================================================================
